---- MODULE Spec2Model ----
(***************************************************************************)
(* A model of the state-evolution core of DeepQuantum: the tensor-index    *)
(* bookkeeping of Gate (src/deepquantum/operation.py), the operator        *)
(* placement of QumodeCircuit.add (src/deepquantum/photonic/circuit.py)    *)
(* and of the MBQC Pattern (src/src/deepquantum/mbqc).                     *)
(*                                                                         *)
(* Conventions.  Python lists are sequences whose ELEMENTS keep Python's   *)
(* 0-based values (axis 0 is the batch axis, qubit q is axis q+1), while   *)
(* positions in a sequence are 1-based as usual in TLA+.  A tensor is a    *)
(* record [shape, data] with data in row-major (C) order, which is what a  *)
(* permute followed by a reshape yields in torch.  Amplitudes are Gaussian *)
(* integers <<re, im>>, so that conjugation and matrix products are exact. *)
(***************************************************************************)
EXTENDS Integers, Sequences, FiniteSets, TLC

VARIABLES
    objs,   \* heap of operator objects: objs[1] is the constructed one, later entries are copies
    ctor,   \* the constructor call made: its arguments and whether it returned
    op,     \* the last method that ran
    psi,    \* the caller's current state: the initial state, then what forward returned
    xin,    \* the tensor handed to op_state / op_den_mat (after tensor_rep)
    xout,   \* the tensor op_state_base / op_state_control / op_den_mat_* returned
    pms,    \* the (pm_shape, inverse permutation) pairs the last application used
    nstep,  \* number of forward calls made on the current state
    mpo,    \* the value get_mpo returned: [tensors, index_left]
    cells,  \* heap of module states (_parameters / _buffers), shared by shallow copies
    cir,    \* the QumodeCircuit or Pattern operators are added to
    res,    \* how the last call on cir ended: "ok" or the exception raised
    mps,    \* the MatrixProductState handed to op_mps (canonicalized in place)
    mps_out,  \* the MatrixProductState op_mps returned
    log,    \* the steps of the last op_mps call, in the order they ran
    qasm_new_gate,  \* the class attribute Gate.qasm_new_gate
    qasm_out,       \* the export runs so far, each the strings its calls returned
    rhs     \* a second Pattern, the right operand of +

gateVars == <<psi, xin, xout, pms, nstep>>

cirVars == <<cells, cir, res>>

mpsVars == <<mps, mps_out, log>>

qasmVars == <<qasm_new_gate, qasm_out>>

vars == <<objs, ctor, op, psi, xin, xout, pms, nstep, mpo, cells, cir, res,
          mps, mps_out, log, qasm_new_gate, qasm_out, rhs>>

---------------------------------------------------------------------------
(* Bounds of the model *)

MaxQubit == 3

MaxDenQubit == 2

MaxArgLen == 2

MaxApply == 1

\* get_mpo is explored on gates of at most this many qubits
MaxMpoQubit == 4

\* a circuit has at most this many modes, a pattern this many input nodes
MaxMode == 2

\* at most this many operators are placed in a circuit or pattern
MaxPlaced == 2

\* qasm_customized is explored on gates with at most this many controls
MaxControls == 3

\* at most this many qasm_customized calls are made in one export run
MaxQasmCalls == 2

\* at most this many export runs are made in one process
MaxExports == 2

\* a matrix product state has at most this many sites
MaxMpsQubit == 3

\* the bond cap of a matrix product state is at most this
MaxChi == 4

\* at most this many gates are applied to a matrix product state in a row
MaxMpsApply == 2

---------------------------------------------------------------------------
(* Gaussian integers *)

CZero == <<0, 0>>
COne == <<1, 0>>
CAdd(a, b) == <<a[1] + b[1], a[2] + b[2]>>
CMul(a, b) == <<a[1] * b[1] - a[2] * b[2], a[1] * b[2] + a[2] * b[1]>>
CConj(a) == <<a[1], 0 - a[2]>>

RECURSIVE CSum(_, _, _)
\* sum of f[lo], ..., f[hi]
CSum(f, lo, hi) == IF lo > hi THEN CZero ELSE CAdd(f[lo], CSum(f, lo + 1, hi))

---------------------------------------------------------------------------
(* Python list helpers *)

\* the list with the elements of f, computed once (a Python list, not a generator)
List(f) == f \o <<>>

RECURSIVE Pow2(_)
Pow2(k) == IF k <= 0 THEN 1 ELSE 2 * Pow2(k - 1)

RECURSIVE ProdFrom(_, _)
\* product of shape[a..Len(shape)]
ProdFrom(shape, a) == IF a > Len(shape) THEN 1 ELSE shape[a] * ProdFrom(shape, a + 1)

Numel(shape) == ProdFrom(shape, 1)

\* list(range(n))
Range0(n) == List([k \in 1..n |-> k - 1])

\* [v] * k
Rep(v, k) == List([i \in 1..k |-> v])

Elems(s) == {s[k] : k \in 1..Len(s)}

\* list.index(v): 1-based position of the first occurrence
IndexOf(s, v) == CHOOSE k \in 1..Len(s) : s[k] = v /\ \A j \in 1..(k - 1) : s[j] # v

\* list.remove(v): drops the first occurrence of v
ListRemove(s, v) ==
    LET k == IndexOf(s, v) IN SubSeq(s, 1, k - 1) \o SubSeq(s, k + 1, Len(s))

RECURSIVE RemoveEach(_, _)
\* for i in vs: s.remove(i)
RemoveEach(s, vs) ==
    IF vs = <<>> THEN s ELSE RemoveEach(ListRemove(s, Head(vs)), Tail(vs))

\* [i + d for i in s]
Shift(s, d) == List([k \in 1..Len(s) |-> s[k] + d])

NoDup(s) == \A i, j \in 1..Len(s) : i # j => s[i] # s[j]

---------------------------------------------------------------------------
(* torch tensor operations, on [shape, data] with row-major data *)

\* multi-index (0-based entries) of the flat 0-based offset k
Unravel(k, shape) ==
    List([a \in 1..Len(shape) |-> (k \div ProdFrom(shape, a + 1)) % shape[a]])

\* row-major strides of a shape
Strides(shape) == List([a \in 1..Len(shape) |-> ProdFrom(shape, a + 1)])

RECURSIVE PermuteOffset(_, _, _, _, _, _)
\* input offset of the element at output offset o: output axis k runs over input axis pm[k]
PermuteOffset(o, oshape, ostrides, istrides, pm, k) ==
    IF k > Len(pm) THEN 0
    ELSE ((o \div ostrides[k]) % oshape[k]) * istrides[pm[k] + 1]
           + PermuteOffset(o, oshape, ostrides, istrides, pm, k + 1)

\* x.permute(pm): output axis k is input axis pm[k]
Permute(t, pm) ==
    LET R == Len(t.shape)
        oshape == List([k \in 1..R |-> t.shape[pm[k] + 1]])
        ostrides == Strides(oshape)
        istrides == Strides(t.shape)
    IN  [shape |-> oshape,
         data  |-> List([o \in 1..Numel(oshape) |->
                      t.data[PermuteOffset(o - 1, oshape, ostrides, istrides, pm, 1) + 1]])]

\* x.reshape(shape), where one entry of shape may be -1
Reshape(t, shape) ==
    LET known == Numel([k \in 1..Len(shape) |-> IF shape[k] = -1 THEN 1 ELSE shape[k]])
    IN  [shape |-> List([k \in 1..Len(shape) |->
                      IF shape[k] = -1 THEN Len(t.data) \div known ELSE shape[k]]),
         data  |-> t.data]

\* m @ x for a matrix m of shape [r, c] and x of shape [c, k]
MatMul(m, x) ==
    LET r == m.shape[1]
        c == m.shape[2]
        k == x.shape[2]
    IN  [shape |-> <<r, k>>,
         data  |-> List([o \in 1..(r * k) |->
                      LET i == (o - 1) \div k
                          j == (o - 1) % k
                      IN  CSum([l \in 1..c |->
                                  CMul(m.data[i * c + l], x.data[(l - 1) * k + j + 1])],
                               1, c)])]

\* m.conj()
Conj(m) == [shape |-> m.shape, data |-> List([k \in 1..Len(m.data) |-> CConj(m.data[k])])]

\* t[..., i] for a 0-based index i of the last axis
SelectLast(t, i) ==
    LET R == Len(t.shape)
        last == t.shape[R]
        oshape == SubSeq(t.shape, 1, R - 1)
    IN  [shape |-> oshape,
         data  |-> List([o \in 1..Numel(oshape) |-> t.data[(o - 1) * last + i + 1]])]

\* t[..., lo:hi] on the last axis (0-based, hi exclusive)
SliceLast(t, lo, hi) ==
    LET R == Len(t.shape)
        last == t.shape[R]
        w == hi - lo
        oshape == [t.shape EXCEPT ![R] = w]
    IN  [shape |-> oshape,
         data  |-> List([o \in 1..Numel(oshape) |->
                      t.data[((o - 1) \div w) * last + lo + ((o - 1) % w) + 1]])]

\* t.unsqueeze(-1)
Unsqueeze(t) == [shape |-> Append(t.shape, 1), data |-> t.data]

\* torch.cat([a, b], dim=-1)
CatLast(a, b) ==
    LET R == Len(a.shape)
        wa == a.shape[R]
        wb == b.shape[R]
        w == wa + wb
        oshape == [a.shape EXCEPT ![R] = w]
    IN  [shape |-> oshape,
         data  |-> List([o \in 1..Numel(oshape) |->
                      LET row == (o - 1) \div w
                          col == (o - 1) % w
                      IN  IF col < wa THEN a.data[row * wa + col + 1]
                          ELSE b.data[row * wb + (col - wa) + 1]])]

\* qmath.inverse_permutation: inv[pm[k]] = k
inverse_permutation(pm) == List([a \in 1..Len(pm) |-> IndexOf(pm, a - 1) - 1])

---------------------------------------------------------------------------
(* Operation and Gate, src/deepquantum/operation.py *)

SeqMin(s) == CHOOSE v \in Elems(s) : \A w \in Elems(s) : v <= w
SeqMax(s) == CHOOSE v \in Elems(s) : \A w \in Elems(s) : v >= w

\* Gate.__init__ without the loop that rejects a wire listed among the controls
GateInitOk_no_overlap_check(nqubit, wires, controls) ==
    /\ wires # <<>>
    /\ SeqMin(wires) > -1 /\ SeqMax(wires) < nqubit
    /\ (Len(controls) > 0 => SeqMin(controls) > -1 /\ SeqMax(controls) < nqubit)
    /\ Cardinality(Elems(wires)) = Len(wires)
    /\ Cardinality(Elems(controls)) = Len(controls)

\* Gate.__init__ returns (every assert passes and min/max are defined)
GateInitOk(nqubit, wires, controls) ==
    /\ wires # <<>>                                   \* min([]) raises ValueError
    /\ SeqMin(wires) > -1 /\ SeqMax(wires) < nqubit
    /\ (Len(controls) > 0 => SeqMin(controls) > -1 /\ SeqMax(controls) < nqubit)
    /\ Cardinality(Elems(wires)) = Len(wires)
    /\ Cardinality(Elems(controls)) = Len(controls)
    /\ \A k \in 1..Len(wires) : wires[k] \notin Elems(controls)

\* the attributes Gate.__init__ and Operation.__init__ set
GateObject(nqubit, wires, controls, matrix, den_mat) ==
    [cls |-> "Gate", nqubit |-> nqubit, wires |-> wires, controls |-> controls,
     nwire |-> Len(wires) + Len(controls), matrix |-> matrix, den_mat |-> den_mat]

\* Operation.tensor_rep
tensor_rep(g, x) ==
    IF g.den_mat THEN Reshape(x, <<-1>> \o Rep(2, 2 * g.nqubit))
    ELSE Reshape(x, <<-1>> \o Rep(2, g.nqubit))

\* Operation.vector_rep
vector_rep(g, x) == Reshape(x, <<-1, Pow2(g.nqubit), 1>>)

\* Operation.matrix_rep
matrix_rep(g, x) == Reshape(x, <<-1, Pow2(g.nqubit), Pow2(g.nqubit)>>)

\* x.squeeze(0)
Squeeze0(x) == IF x.shape[1] = 1 THEN [shape |-> Tail(x.shape), data |-> x.data] ELSE x

\* Gate.update_matrix
update_matrix(g) == g.matrix

\* pm_shape of the paths without controls: the target axes, then the rest
pm_shape_base(naxes, wires) == wires \o RemoveEach(Range0(naxes), wires)

\* pm_shape with the control axes placed right after the targets
pm_shape_control_early(naxes, wires, controls) ==
    wires \o controls \o RemoveEach(RemoveEach(Range0(naxes), wires), controls)

\* pm_shape of the paths with controls: targets, the rest, then the control axes
pm_shape_control(naxes, wires, controls) ==
    wires \o RemoveEach(RemoveEach(Range0(naxes), wires), controls) \o controls

\* what an application routine hands back: the tensor it returns, and the
\* (pm_shape, permutation used to restore the axes) pairs it went through
Applied(out, pm_shape, restore) ==
    [out |-> out, pms |-> <<[pm |-> pm_shape, inv |-> restore]>>]

\* Gate.op_state_base
op_state_base(g, x, matrix) ==
    LET nt == Len(g.wires)
        wires == Shift(g.wires, 1)
        pm_shape == pm_shape_base(g.nqubit + 1, wires)
        x1 == Reshape(Permute(x, pm_shape), <<Pow2(nt), -1>>)
        x2 == Reshape(MatMul(matrix, x1), Rep(2, nt) \o <<-1>> \o Rep(2, g.nqubit - nt))
        restore == inverse_permutation(pm_shape)
    IN  Applied(Permute(x2, restore), pm_shape, restore)

\* the control body restoring the axes with pm_shape itself instead of its inverse
control_block_no_inverse(x, matrix, nt, nc, nrest, pm_shape) ==
    LET state1 == Reshape(Permute(x, pm_shape), <<Pow2(nt), -1, Pow2(nc)>>)
        state2 == Unsqueeze(MatMul(matrix, SelectLast(state1, Pow2(nc) - 1)))
        state3 == CatLast(SliceLast(state1, 0, Pow2(nc) - 1), state2)
        state4 == Reshape(state3, Rep(2, nt) \o <<-1>> \o Rep(2, nrest) \o Rep(2, nc))
    IN  Applied(Permute(state4, pm_shape), pm_shape, pm_shape)

\* the body shared by op_state_control and both halves of op_den_mat_control:
\* only the slice where the trailing control index is all ones is multiplied
control_block(x, matrix, nt, nc, nrest, pm_shape) ==
    LET state1 == Reshape(Permute(x, pm_shape), <<Pow2(nt), -1, Pow2(nc)>>)
        state2 == Unsqueeze(MatMul(matrix, SelectLast(state1, Pow2(nc) - 1)))
        state3 == CatLast(SliceLast(state1, 0, Pow2(nc) - 1), state2)
        state4 == Reshape(state3, Rep(2, nt) \o <<-1>> \o Rep(2, nrest) \o Rep(2, nc))
        restore == inverse_permutation(pm_shape)
    IN  Applied(Permute(state4, restore), pm_shape, restore)

\* op_state_control multiplying the first control slice (index 0) instead of the last
op_state_control_first_slice(g, x, matrix) ==
    LET nt == Len(g.wires)
        nc == Len(g.controls)
        wires == Shift(g.wires, 1)
        controls == Shift(g.controls, 1)
        pm_shape == pm_shape_control(g.nqubit + 1, wires, controls)
        state1 == Reshape(Permute(x, pm_shape), <<Pow2(nt), -1, Pow2(nc)>>)
        state2 == Unsqueeze(MatMul(matrix, SelectLast(state1, 0)))
        state3 == CatLast(state2, SliceLast(state1, 1, Pow2(nc)))
        state4 == Reshape(state3, Rep(2, nt) \o <<-1>> \o Rep(2, g.nqubit - nt - nc)
                                    \o Rep(2, nc))
        restore == inverse_permutation(pm_shape)
    IN  Applied(Permute(state4, restore), pm_shape, restore)

\* op_state_control taking the matrix columns from the wires in reverse order
op_state_control_reversed_wires(g, x, matrix) ==
    LET nt == Len(g.wires)
        nc == Len(g.controls)
        wires == Shift([k \in 1..nt |-> g.wires[nt + 1 - k]] \o <<>>, 1)
        controls == Shift(g.controls, 1)
        pm_shape == pm_shape_control(g.nqubit + 1, wires, controls)
    IN  control_block(x, matrix, nt, nc, g.nqubit - nt - nc, pm_shape)

\* Gate.op_state_control
op_state_control(g, x, matrix) ==
    LET nt == Len(g.wires)
        nc == Len(g.controls)
        wires == Shift(g.wires, 1)
        controls == Shift(g.controls, 1)
        pm_shape == pm_shape_control(g.nqubit + 1, wires, controls)
    IN  control_block(x, matrix, nt, nc, g.nqubit - nt - nc, pm_shape)

\* a dispatch that sends every gate to op_state_base, controls or not
op_state_ignore_controls(g, x) == op_state_base(g, x, update_matrix(g))

\* Gate.op_state, up to the tensor the base / control routine returns
op_state(g, x) ==
    LET matrix == update_matrix(g)
    IN  IF g.controls = <<>> THEN op_state_base(g, x, matrix)
        ELSE op_state_control(g, x, matrix)

\* Gate.op_den_mat_base, left multiply (ket axes)
op_den_mat_base_left(g, x, matrix) ==
    LET nt == Len(g.wires)
        wires == Shift(g.wires, 1)
        pm_shape == pm_shape_base(2 * g.nqubit + 1, wires)
        x1 == Reshape(Permute(x, pm_shape), <<Pow2(nt), -1>>)
        x2 == Reshape(MatMul(matrix, x1),
                      Rep(2, nt) \o <<-1>> \o Rep(2, 2 * g.nqubit - nt))
        restore == inverse_permutation(pm_shape)
    IN  Applied(Permute(x2, restore), pm_shape, restore)

\* the right multiply of op_den_mat_base without the conjugation
op_den_mat_base_right_no_conj(g, x, matrix) ==
    LET nt == Len(g.wires)
        wires == Shift(g.wires, 1 + g.nqubit)
        pm_shape == pm_shape_base(2 * g.nqubit + 1, wires)
        x1 == Reshape(Permute(x, pm_shape), <<Pow2(nt), -1>>)
        x2 == Reshape(MatMul(matrix, x1),
                      Rep(2, nt) \o <<-1>> \o Rep(2, 2 * g.nqubit - nt))
        restore == inverse_permutation(pm_shape)
    IN  Applied(Permute(x2, restore), pm_shape, restore)

\* Gate.op_den_mat_base, right multiply (bra axes, conjugated matrix)
op_den_mat_base_right(g, x, matrix) ==
    LET nt == Len(g.wires)
        wires == Shift(g.wires, 1 + g.nqubit)
        pm_shape == pm_shape_base(2 * g.nqubit + 1, wires)
        x1 == Reshape(Permute(x, pm_shape), <<Pow2(nt), -1>>)
        x2 == Reshape(MatMul(Conj(matrix), x1),
                      Rep(2, nt) \o <<-1>> \o Rep(2, 2 * g.nqubit - nt))
        restore == inverse_permutation(pm_shape)
    IN  Applied(Permute(x2, restore), pm_shape, restore)

\* Gate.op_den_mat_base
op_den_mat_base(g, x, matrix) ==
    LET left == op_den_mat_base_left(g, x, matrix)
        right == op_den_mat_base_right(g, left.out, matrix)
    IN  [out |-> right.out, pms |-> left.pms \o right.pms]

\* Gate.op_den_mat_control, left multiply
op_den_mat_control_left(g, x, matrix) ==
    LET nt == Len(g.wires)
        nc == Len(g.controls)
        wires == Shift(g.wires, 1)
        controls == Shift(g.controls, 1)
        pm_shape == pm_shape_control(2 * g.nqubit + 1, wires, controls)
    IN  control_block(x, matrix, nt, nc, 2 * g.nqubit - nt - nc, pm_shape)

\* the right multiply of op_den_mat_control without the conjugation
op_den_mat_control_right_no_conj(g, x, matrix) ==
    LET nt == Len(g.wires)
        nc == Len(g.controls)
        wires == Shift(g.wires, 1 + g.nqubit)
        controls == Shift(g.controls, 1 + g.nqubit)
        pm_shape == pm_shape_control(2 * g.nqubit + 1, wires, controls)
    IN  control_block(x, matrix, nt, nc, 2 * g.nqubit - nt - nc, pm_shape)

\* Gate.op_den_mat_control, right multiply
op_den_mat_control_right(g, x, matrix) ==
    LET nt == Len(g.wires)
        nc == Len(g.controls)
        wires == Shift(g.wires, 1 + g.nqubit)
        controls == Shift(g.controls, 1 + g.nqubit)
        pm_shape == pm_shape_control(2 * g.nqubit + 1, wires, controls)
    IN  control_block(x, Conj(matrix), nt, nc, 2 * g.nqubit - nt - nc, pm_shape)

\* Gate.op_den_mat_control
op_den_mat_control(g, x, matrix) ==
    LET left == op_den_mat_control_left(g, x, matrix)
        right == op_den_mat_control_right(g, left.out, matrix)
    IN  [out |-> right.out, pms |-> left.pms \o right.pms]

\* Gate.op_den_mat, up to the tensor the base / control routine returns
op_den_mat(g, x) ==
    LET matrix == update_matrix(g)
    IN  IF g.controls = <<>> THEN op_den_mat_base(g, x, matrix)
        ELSE op_den_mat_control(g, x, matrix)

---------------------------------------------------------------------------
(* Gate.get_mpo.  Objects live on the heap `objs`; copy(self) allocates a  *)
(* new object whose attributes start equal to those of self.              *)

None == "None"

Last(s) == s[Len(s)]

\* sorted(index)
Sorted(index) == SortSeq(index, LAMBDA a, b : a < b)

\* the object `gate_copy` names once `gate_copy = self` replaces the copy
copy_alias(h, self) == [heap |-> h, ref |-> self]

\* copy(op): a new heap object with the attributes of op
copy(h, self) == [heap |-> Append(h, h[self]), ref |-> Len(h) + 1]

\* torch.eye(n) as a matrix of shape (n, n)
Eye(n) ==
    [shape |-> <<n, n>>,
     data |-> List([k \in 1..(n * n) |->
                       IF (k - 1) \div n = (k - 1) % n THEN COne ELSE CZero])]

\* the shapes (nleft, qudit, nright) of state_to_tensors(u, nqubit=nindex, qudit=4):
\* a left-to-right split whose bond after site k is min(4^k, 4^(nindex-k))
state_to_tensors(nindex) ==
    LET Bond(k) == IF 2 * k <= nindex THEN Pow2(2 * k) ELSE Pow2(2 * (nindex - k))
    IN  List([k \in 1..nindex |-> [shape |-> <<Bond(k - 1), 4, Bond(k)>>]])

\* main_tensor.reshape(nleft, 2, 2, nright); k is the position in main_tensors
MainTensor(k, main_tensor) ==
    LET nleft == main_tensor.shape[1]
        nright == main_tensor.shape[3]
    IN  [kind |-> "main", k |-> k, shape |-> <<nleft, 2, 2, nright>>, data |-> <<>>]

\* an identity tensor whose bond is the left bond of the tensor before it
IdentityTensor_left_bond(tensors) ==
    LET chi == Last(tensors).shape[1]
        identity == Eye(chi * 2)
        t == Permute(Reshape(identity, <<chi, 2, chi, 2>>), <<0, 1, 3, 2>>)
    IN  [kind |-> "identity", k |-> -1, shape |-> t.shape, data |-> t.data]

\* chi = tensors[-1].shape[-1]; torch.eye(chi * 2).reshape(chi, 2, chi, 2).permute(0, 1, 3, 2)
IdentityTensor(tensors) ==
    LET chi == Last(tensors).shape[Len(Last(tensors).shape)]
        identity == Eye(chi * 2)
        t == Permute(Reshape(identity, <<chi, 2, chi, 2>>), <<0, 1, 3, 2>>)
    IN  [kind |-> "identity", k |-> -1, shape |-> t.shape, data |-> t.data]

\* for _ in range(previous_i + 1, i): tensors.append(identity ...)
RECURSIVE FillIdentities(_, _, _)
FillIdentities(tensors, lo, hi) ==
    IF lo >= hi THEN tensors
    ELSE FillIdentities(Append(tensors, IdentityTensor(tensors)), lo + 1, hi)

\* for i, main_tensor in zip(index_sort, main_tensors): ...
\* (previous_i is <<>> for Python's None and <<i>> once it holds a site)
RECURSIVE MpoChain(_, _, _, _, _)
MpoChain(index_sort, main_tensors, j, previous_i, tensors) ==
    IF j > Len(index_sort) \/ j > Len(main_tensors) THEN tensors
    ELSE LET i == index_sort[j]
             filled == IF previous_i # <<>>
                       THEN FillIdentities(tensors, previous_i[1] + 1, i)
                       ELSE tensors
         IN  MpoChain(index_sort, main_tensors, j + 1, <<i>>,
                      Append(filled, MainTensor(j, main_tensors[j])))

\* the attribute writes of get_mpo on gate_copy
localize(h, gate_copy, index_local, nindex) ==
    LET h1 == [h EXCEPT ![gate_copy].nqubit = nindex]
        h2 == [h1 EXCEPT ![gate_copy].wires =
                              SubSeq(index_local, 1, Len(h1[gate_copy].wires))]
    IN  [h2 EXCEPT ![gate_copy].controls =
                       SubSeq(index_local, Len(h2[gate_copy].wires) + 1, nindex)]

\* Gate.get_mpo: the heap when it returns (gate_copy is a local and is dropped
\* with the frame), the chain of tensors and index_left
get_mpo(h, self) ==
    LET index == h[self].wires \o h[self].controls
        index_left == SeqMin(index)
        nindex == Len(index)
        index_sort == Sorted(index)
        index_local == List([k \in 1..nindex |-> IndexOf(index_sort, index[k]) - 1])
        c == copy(h, self)
        h1 == localize(c.heap, c.ref, index_local, nindex)
        main_tensors == state_to_tensors(h1[c.ref].nqubit)
        tensors == MpoChain(index_sort, main_tensors, 1, <<>>, <<>>)
    IN  [heap |-> SubSeq(h1, 1, Len(h)), tensors |-> tensors, index_left |-> index_left]

---------------------------------------------------------------------------
(* Inputs *)

\* small complex entries without symmetry (neither symmetric nor Hermitian as a matrix)
GenericData(n) == List([k \in 1..n |-> <<((k * 7) % 5) - 2, ((k * k) % 3) - 1>>])

OneHotData(n, i) == List([k \in 1..n |-> IF k = i THEN COne ELSE CZero])

PauliX == [shape |-> <<2, 2>>, data |-> <<CZero, COne, COne, CZero>>]

\* the local matrices a gate on nt wires may carry
Matrices(nt) ==
    LET d == Pow2(nt)
    IN  {[shape |-> <<d, d>>, data |-> GenericData(d * d)]}
          \cup (IF nt = 1 THEN {PauliX} ELSE {})

\* state vectors of shape (batch, 2^n, 1): every basis state and a generic vector
\* for one sample, a generic batch of two samples
StateInputs(n) ==
    LET d == Pow2(n)
    IN  {[shape |-> <<1, d, 1>>, data |-> OneHotData(d, i)] : i \in 1..d}
          \cup {[shape |-> <<b, d, 1>>, data |-> GenericData(b * d)] : b \in {1, 2}}

\* density matrices of shape (batch, 2^n, 2^n): every |i><i|, a generic matrix
\* for one sample, a generic batch of two samples
DenMatInputs(n) ==
    LET d == Pow2(n)
    IN  {[shape |-> <<1, d, d>>, data |-> OneHotData(d * d, (i - 1) * d + i)] : i \in 1..d}
          \cup {[shape |-> <<b, d, d>>, data |-> GenericData(b * d * d)] : b \in {1, 2}}

\* index lists handed to Gate.__init__, valid or not
IndexLists(nqubit) ==
    UNION {[1..l -> (-1)..nqubit] : l \in 0..MaxArgLen}

---------------------------------------------------------------------------
(* Operator placement: QumodeCircuit.add and Pattern.add.  `objs` is the   *)
(* heap of operator objects and `cells` the heap of module states: the     *)
(* _parameters and _buffers dictionaries of an nn.Module, which a shallow  *)
(* copy shares with the object it was copied from.  An optional argument   *)
(* is <<>> for Python's None and <<v>> for the value v.                    *)

NoCall == [call |-> None]

\* PhaseShift.__init__ up to init_para: the instance attributes it sets
PhaseShiftObject(nmode, wires, requires_grad, state) ==
    [cls |-> "PhaseShift", nmode |-> nmode, wires |-> wires, npara |-> 1,
     requires_grad |-> requires_grad, state |-> state, matrix |-> [phase |-> 0]]

\* the attributes of a command of a pattern: those Pattern.add reads (node, npara,
\* requires_grad), the domains of a Measurement or a correction as sets of nodes
\* (empty by default), and the sample a Measurement keeps of its last outcome
PatternOp(cls, node, requires_grad) ==
    [cls |-> cls, node |-> node, npara |-> 0, requires_grad |-> requires_grad,
     t_domain |-> {}, s_domain |-> {}, signal_domain |-> {}, sample |-> <<>>]

\* an nn.Module just constructed: both dictionaries are empty
NewCell == [parameters |-> <<>>, buffers |-> <<>>]

\* op.theta: nn.Module.__getattr__ looks in _parameters, then in _buffers
Theta(h, cl, o) ==
    LET c == cl[h[o].state]
    IN  IF c.parameters # <<>> THEN c.parameters[1] ELSE c.buffers[1]

\* PhaseShift.get_matrix(theta) = exp(i theta), kept as its phase
get_matrix(theta) == [phase |-> theta]

\* init_para binding theta in dictionaries of its own instead of the shared ones
init_para_rebind(h, cl, self, theta) ==
    LET fresh == IF h[self].requires_grad
                 THEN [parameters |-> <<theta>>, buffers |-> <<>>]
                 ELSE [parameters |-> <<>>, buffers |-> <<theta>>]
        h1 == [h EXCEPT ![self].state = Len(cl) + 1]
    IN  [heap |-> [h1 EXCEPT ![self].matrix = get_matrix(theta)],
         cells |-> Append(cl, fresh)]

\* PhaseShift.init_para(inputs): theta goes into _parameters (nn.Parameter) or
\* _buffers (register_buffer) of the module state, then update_matrix caches
\* self.matrix on the object itself
init_para(h, cl, self, theta) ==
    LET c == cl[h[self].state]
        c1 == IF h[self].requires_grad
              THEN [parameters |-> <<theta>>, buffers |-> <<>>]
              ELSE [c EXCEPT !.buffers = <<theta>>]
    IN  [heap |-> [h EXCEPT ![self].matrix = get_matrix(theta)],
         cells |-> [cl EXCEPT ![h[self].state] = c1]]

\* QumodeCircuit.__init__
QumodeCircuit(nmode) ==
    [kind |-> "QumodeCircuit", nmode |-> nmode, operators |-> <<>>, encoders |-> <<>>,
     npara |-> 0, ndata |-> 0, depth |-> Rep(0, nmode)]

\* Pattern.__init__
Pattern(n_input_nodes) ==
    [kind |-> "Pattern", n_input_nodes |-> n_input_nodes, bg_qubit |-> n_input_nodes,
     cmds |-> <<>>, encoders |-> <<>>, npara |-> 0, ndata |-> 0,
     node_list |-> Range0(n_input_nodes), edge_list |-> <<>>,
     measured_dic |-> <<>>, unmeasured_list |-> Range0(n_input_nodes),
     init_state |-> [ndim |-> 2, nqubit |-> n_input_nodes], bg_state |-> <<>>]

\* mbqc Operation._convert_indices on a list of ints: only duplicates are refused
_convert_indices(indices) == Cardinality(Elems(indices)) = Len(indices)

\* _convert_indices of the photonic Operation, which QumodeCircuit inherits:
\* indices outside 0..nmode-1 and duplicates are refused
_convert_indices_nmode(nmode, indices) ==
    /\ \A k \in 1..Len(indices) : indices[k] > -1 /\ indices[k] < nmode
    /\ Cardinality(Elems(indices)) = Len(indices)

\* for i in op.wires: self.depth[i] += 1, on a numpy array: a negative index
\* counts from the end, an index outside -n..n-1 raises IndexError mid-loop
RECURSIVE DepthLoop(_, _, _)
DepthLoop(depth, wires, k) ==
    IF k > Len(wires) THEN [depth |-> depth, ok |-> TRUE]
    ELSE LET i == wires[k]
             n == Len(depth)
         IN  IF i >= n \/ i < -n THEN [depth |-> depth, ok |-> FALSE]
             ELSE LET at == (IF i < 0 THEN i + n ELSE i) + 1
                  IN  DepthLoop([depth EXCEPT ![at] = depth[at] + 1], wires, k + 1)

\* isinstance(op, Operation) of the photonic library
isinstance_photonic(o) == o.cls = "PhaseShift"

\* isinstance(op, Operation) of the MBQC library
isinstance_mbqc(o) ==
    o.cls \in {"Node", "Entanglement", "Measurement", "XCorrection", "ZCorrection"}

\* QumodeCircuit.add from self.operators.append(op) on, without the assert on
\* op.requires_grad
circuit_place_any_encoder(h, c, target, encode) ==
    LET c1 == [c EXCEPT !.operators = Append(c.operators, target)]
        d == DepthLoop(c1.depth, h[target].wires, 1)
        c2 == [c1 EXCEPT !.depth = d.depth]
    IN  IF ~d.ok THEN [heap |-> h, cir |-> c2, outcome |-> "IndexError"]
        ELSE IF encode
        THEN [heap |-> h,
              cir |-> [c2 EXCEPT !.encoders = Append(c2.encoders, target),
                                 !.ndata = c2.ndata + h[target].npara],
              outcome |-> "ok"]
        ELSE [heap |-> h, cir |-> [c2 EXCEPT !.npara = c2.npara + h[target].npara],
              outcome |-> "ok"]

\* QumodeCircuit.add from self.operators.append(op) on
circuit_place(h, c, target, encode) ==
    LET c1 == [c EXCEPT !.operators = Append(c.operators, target)]
        d == DepthLoop(c1.depth, h[target].wires, 1)
        c2 == [c1 EXCEPT !.depth = d.depth]
    IN  IF ~d.ok THEN [heap |-> h, cir |-> c2, outcome |-> "IndexError"]
        ELSE IF encode
        THEN IF h[target].requires_grad
             THEN [heap |-> h, cir |-> c2, outcome |-> "AssertionError"]
             ELSE [heap |-> h,
                   cir |-> [c2 EXCEPT !.encoders = Append(c2.encoders, target),
                                      !.ndata = c2.ndata + h[target].npara],
                   outcome |-> "ok"]
        ELSE [heap |-> h, cir |-> [c2 EXCEPT !.npara = c2.npara + h[target].npara],
              outcome |-> "ok"]

\* QumodeCircuit.add(op, encode, wires) for an op that is not itself a circuit
circuit_add(h, c, o, encode, wires) ==
    IF ~isinstance_photonic(h[o])
    THEN [heap |-> h, cir |-> c, outcome |-> "AssertionError"]
    ELSE IF wires # <<>>
    THEN IF ~_convert_indices_nmode(c.nmode, wires[1]) \/ Len(wires[1]) # Len(h[o].wires)
         THEN [heap |-> h, cir |-> c, outcome |-> "AssertionError"]
         ELSE LET cp == copy(h, o)
                  h1 == [cp.heap EXCEPT ![cp.ref].wires = wires[1]]
              IN  circuit_place(h1, c, cp.ref, encode)
    ELSE circuit_place(h, c, o, encode)

\* Pattern.add from self.cmds.append(op) on
pattern_place(h, c, target, encode) ==
    LET c1 == [c EXCEPT !.cmds = Append(c.cmds, target)]
    IN  IF encode
        THEN IF h[target].requires_grad
             THEN [heap |-> h, cir |-> c1, outcome |-> "AssertionError"]
             ELSE [heap |-> h,
                   cir |-> [c1 EXCEPT !.encoders = Append(c1.encoders, target),
                                      !.ndata = c1.ndata + h[target].npara],
                   outcome |-> "ok"]
        ELSE [heap |-> h, cir |-> [c1 EXCEPT !.npara = c1.npara + h[target].npara],
              outcome |-> "ok"]

\* Pattern.add(op, encode, node)
pattern_add(h, c, o, encode, node) ==
    IF ~isinstance_mbqc(h[o])
    THEN [heap |-> h, cir |-> c, outcome |-> "AssertionError"]
    ELSE IF node # <<>>
    THEN IF ~_convert_indices(node[1]) \/ Len(node[1]) # Len(h[o].node)
         THEN [heap |-> h, cir |-> c, outcome |-> "AssertionError"]
         ELSE LET cp == copy(h, o)
                  h1 == [cp.heap EXCEPT ![cp.ref].node = node[1]]
              IN  pattern_place(h1, c, cp.ref, encode)
    ELSE pattern_place(h, c, o, encode)

\* QumodeCircuit.ps(wires, inputs, encode): inputs is None (<<>>) or a value;
\* drawn is the value inputs_to_tensor draws when inputs is None
circuit_ps(h, cl, c, wires, inputs, encode, drawn) ==
    LET requires_grad == IF inputs # <<>> THEN FALSE ELSE ~encode
        theta == IF inputs # <<>> THEN inputs[1] ELSE drawn
        ps == Len(h) + 1
        built == init_para(Append(h, PhaseShiftObject(c.nmode, <<wires>>, requires_grad,
                                                      Len(cl) + 1)),
                           Append(cl, NewCell), ps, theta)
        r == circuit_add(built.heap, c, ps, encode, <<>>)
    IN  [heap |-> r.heap, cells |-> built.cells, cir |-> r.cir, outcome |-> r.outcome]

\* Pattern.n / m / x / z below the membership assert: build the command on one
\* node and add it; the builders pass no requires_grad to the command
pattern_command(h, c, cls, node) ==
    pattern_add(Append(h, PatternOp(cls, <<node>>, FALSE)), c, Len(h) + 1,
                FALSE, <<>>)

\* Pattern.n(node)
pattern_n(h, c, node) ==
    IF node \in Elems(c.node_list)
    THEN [heap |-> h, cir |-> c, outcome |-> "AssertionError"]
    ELSE LET c1 == [c EXCEPT !.node_list = Append(c.node_list, node)]
             r == pattern_command(h, c1, "Node", node)
         IN  [heap |-> r.heap,
              cir |-> [r.cir EXCEPT !.bg_qubit = r.cir.bg_qubit + 1,
                                    !.unmeasured_list = Append(r.cir.unmeasured_list, node)],
              outcome |-> r.outcome]

\* Pattern.e(node) for a list of two nodes
pattern_e(h, c, node) ==
    IF ~(node[1] \in Elems(c.node_list) /\ node[2] \in Elems(c.node_list))
    THEN [heap |-> h, cir |-> c, outcome |-> "AssertionError"]
    ELSE IF ~_convert_indices(node)
    THEN [heap |-> h, cir |-> c, outcome |-> "AssertionError"]
    ELSE pattern_add(Append(h, PatternOp("Entanglement", node, FALSE)),
                     [c EXCEPT !.edge_list = Append(c.edge_list, node)], Len(h) + 1,
                     FALSE, <<>>)

\* Pattern.m(node): no assert before the command is built and added
pattern_m(h, c, node) ==
    pattern_command(h, c, "Measurement", node)

\* Pattern.x(node) and Pattern.z(node); cls is XCorrection or ZCorrection
pattern_correction(h, c, cls, node) ==
    IF node \notin Elems(c.node_list)
    THEN [heap |-> h, cir |-> c, outcome |-> "AssertionError"]
    ELSE pattern_command(h, c, cls, node)

\* the operator sequence of either container
Stored(c) == IF c.kind = "Pattern" THEN c.cmds ELSE c.operators

\* QumodeCircuit.encode(data) for data that is not None: [ok, heap, cells]
RECURSIVE EncodeLoop(_, _, _, _, _, _)
EncodeLoop(h, cl, encoders, data, k, count) ==
    IF k > Len(encoders) THEN [heap |-> h, cells |-> cl]
    ELSE LET count_up == count + h[encoders[k]].npara
             r == init_para(h, cl, encoders[k], data[count + 1])
         IN  EncodeLoop(r.heap, r.cells, encoders, data, k + 1, count_up)

\* the index lists a caller hands to add for an operator on k axes: None, the
\* empty list, or a list of k indices from -1..n, valid or not
IndexArgs(n, k) == {<<>>} \cup {<<w>> : w \in {<<>>} \cup [1..k -> (-1)..n]}

\* the parameter values a caller writes: a PhaseShift is built with 0
Thetas == {0, 1}

---------------------------------------------------------------------------
(* Actions on one Gate *)

NoTensor == [shape |-> <<>>, data |-> <<>>]

NoMpo == [tensors |-> <<>>, index_left |-> -1]

NoMps == [nqubit |-> 0]

NoLog == [input |-> NoMps, steps |-> <<>>, outcome |-> None]

NoCircuit == [kind |-> None]

Init ==
    /\ rhs = NoCircuit
    /\ objs = <<>>
    /\ ctor = [called |-> FALSE]
    /\ op = "init"
    /\ psi = NoTensor
    /\ xin = NoTensor
    /\ xout = NoTensor
    /\ pms = <<>>
    /\ nstep = 0
    /\ mpo = NoMpo
    /\ cells = <<>>
    /\ cir = NoCircuit
    /\ res = NoCall
    /\ mps = NoMps
    /\ mps_out = NoMps
    /\ log = NoLog
    /\ qasm_new_gate = <<>>
    /\ qasm_out = <<>>

\* Gate(nqubit=.., wires=.., controls=.., den_mat=..)
NewGate ==
    /\ UNCHANGED rhs
    /\ op = "init"
    /\ \E nqubit \in 1..MaxQubit :
       \E wires \in IndexLists(nqubit), controls \in IndexLists(nqubit) :
          IF GateInitOk(nqubit, wires, controls)
          THEN \E matrix \in Matrices(Len(wires)),
                  den_mat \in {d \in BOOLEAN : d => nqubit <= MaxDenQubit} :
                 /\ objs' = <<GateObject(nqubit, wires, controls, matrix, den_mat)>>
                 /\ ctor' = [called |-> TRUE, ok |-> TRUE, nqubit |-> nqubit,
                             wires |-> wires, controls |-> controls]
          ELSE /\ objs' = objs
               /\ ctor' = [called |-> TRUE, ok |-> FALSE, nqubit |-> nqubit,
                           wires |-> wires, controls |-> controls]
    /\ op' = "new"
    /\ UNCHANGED <<mpsVars, qasmVars>>
    /\ UNCHANGED <<psi, xin, xout, pms, nstep, mpo>>
    /\ UNCHANGED cirVars

\* the caller prepares the initial state the gate will act on
LoadState ==
    /\ UNCHANGED rhs
    /\ objs # <<>>
    /\ psi = NoTensor
    /\ psi' \in (IF objs[1].den_mat THEN DenMatInputs(objs[1].nqubit)
                  ELSE StateInputs(objs[1].nqubit))
    /\ op' = "load"
    /\ UNCHANGED <<mpsVars, qasmVars>>
    /\ UNCHANGED <<objs, ctor, xin, xout, pms, nstep, mpo>>
    /\ UNCHANGED cirVars

\* Gate.forward on the current state vector
ForwardState ==
    /\ UNCHANGED rhs
    /\ objs # <<>>
    /\ psi # NoTensor
    /\ nstep < MaxApply
    /\ ~objs[1].den_mat
    /\ LET g == objs[1]
           t == tensor_rep(g, psi)
           y == op_state(g, t)
       IN  /\ xin' = t
           /\ xout' = y.out
           /\ pms' = y.pms
           /\ psi' = Squeeze0(vector_rep(g, y.out))
    /\ op' = "op_state"
    /\ UNCHANGED <<mpsVars, qasmVars>>
    /\ nstep' = nstep + 1
    /\ UNCHANGED <<objs, ctor, mpo>>
    /\ UNCHANGED cirVars

\* Gate.forward on the current density matrix
ForwardDenMat ==
    /\ UNCHANGED rhs
    /\ objs # <<>>
    /\ psi # NoTensor
    /\ nstep < MaxApply
    /\ objs[1].den_mat
    /\ LET g == objs[1]
           t == tensor_rep(g, psi)
           y == op_den_mat(g, t)
       IN  /\ xin' = t
           /\ xout' = y.out
           /\ pms' = y.pms
           /\ psi' = Squeeze0(matrix_rep(g, y.out))
    /\ op' = "op_den_mat"
    /\ UNCHANGED <<mpsVars, qasmVars>>
    /\ nstep' = nstep + 1
    /\ UNCHANGED <<objs, ctor, mpo>>
    /\ UNCHANGED cirVars

Next == NewGate \/ LoadState \/ ForwardState \/ ForwardDenMat

Spec == Init /\ [][Next]_vars

---------------------------------------------------------------------------
(* Matrix product operators of one Gate *)

\* a constructed gate: Gate.__init__ returned
InitMpo ==
    /\ rhs = NoCircuit
    /\ \E nqubit \in 1..MaxMpoQubit :
       \E wires \in IndexLists(nqubit), controls \in IndexLists(nqubit) :
          /\ GateInitOk(nqubit, wires, controls)
          /\ objs = <<GateObject(nqubit, wires, controls,
                                 [shape |-> <<Pow2(Len(wires)), Pow2(Len(wires))>>,
                                  data |-> GenericData(Pow2(2 * Len(wires)))], FALSE)>>
          /\ ctor = [called |-> TRUE, ok |-> TRUE, nqubit |-> nqubit,
                     wires |-> wires, controls |-> controls]
    /\ op = "new"
    /\ psi = NoTensor
    /\ xin = NoTensor
    /\ xout = NoTensor
    /\ pms = <<>>
    /\ nstep = 0
    /\ mpo = NoMpo
    /\ cells = <<>>
    /\ cir = NoCircuit
    /\ res = NoCall
    /\ mps = NoMps
    /\ mps_out = NoMps
    /\ log = NoLog
    /\ qasm_new_gate = <<>>
    /\ qasm_out = <<>>

\* Gate.get_mpo()
GetMpo ==
    /\ UNCHANGED rhs
    /\ objs # <<>>
    /\ LET r == get_mpo(objs, 1)
       IN  /\ objs' = r.heap
           /\ mpo' = [tensors |-> r.tensors, index_left |-> r.index_left]
    /\ op' = "get_mpo"
    /\ UNCHANGED <<mpsVars, qasmVars>>
    /\ UNCHANGED <<ctor, gateVars, cirVars>>

NextMpo == GetMpo

SpecMpo == InitMpo /\ [][NextMpo]_vars

---------------------------------------------------------------------------
(* Operators placed in a circuit or a pattern *)

\* a QumodeCircuit or a Pattern just constructed, no operator yet
InitCircuit ==
    /\ rhs = NoCircuit
    /\ cir \in {QumodeCircuit(n) : n \in 1..MaxMode} \cup {Pattern(n) : n \in 1..MaxMode}
    /\ objs = <<>>
    /\ cells = <<>>
    /\ ctor = [called |-> FALSE]
    /\ op = "init"
    /\ res = NoCall
    /\ mps = NoMps
    /\ mps_out = NoMps
    /\ log = NoLog
    /\ qasm_new_gate = <<>>
    /\ qasm_out = <<>>
    /\ psi = NoTensor
    /\ xin = NoTensor
    /\ xout = NoTensor
    /\ pms = <<>>
    /\ nstep = 0
    /\ mpo = NoMpo

\* PhaseShift(inputs=0, nmode=cir.nmode, wires=[w], requires_grad=..), built for
\* this circuit as QumodeCircuit.ps builds it
NewPhaseShift ==
    /\ UNCHANGED rhs
    /\ objs = <<>>
    /\ cir.kind = "QumodeCircuit"
    /\ \E requires_grad \in BOOLEAN, w \in 0..(cir.nmode - 1) :
          LET nmode == cir.nmode
              r == init_para(<<PhaseShiftObject(nmode, <<w>>, requires_grad, 1)>>,
                             <<NewCell>>, 1, 0)
          IN  /\ objs' = r.heap
              /\ cells' = r.cells
              /\ ctor' = [called |-> TRUE, ok |-> TRUE, nqubit |-> nmode,
                          wires |-> <<w>>, controls |-> <<>>]
    /\ op' = "new"
    /\ UNCHANGED <<mpsVars, qasmVars>>
    /\ UNCHANGED <<gateVars, mpo, cir, res>>

\* Gate(nqubit=.., wires=.., controls=..) of the qubit library
NewQubitGate ==
    /\ UNCHANGED rhs
    /\ objs = <<>>
    /\ cir.kind = "QumodeCircuit"
    /\ \E nqubit \in 1..MaxQubit :
       \E wires \in IndexLists(nqubit), controls \in IndexLists(nqubit) :
          /\ GateInitOk(nqubit, wires, controls)
          /\ objs' = <<GateObject(nqubit, wires, controls,
                                  [shape |-> <<Pow2(Len(wires)), Pow2(Len(wires))>>,
                                   data |-> GenericData(Pow2(2 * Len(wires)))], FALSE)>>
          /\ ctor' = [called |-> TRUE, ok |-> TRUE, nqubit |-> nqubit,
                      wires |-> wires, controls |-> controls]
    /\ op' = "new"
    /\ UNCHANGED <<mpsVars, qasmVars>>
    /\ UNCHANGED <<gateVars, mpo, cells, cir, res>>

\* Measurement(node=[i]) of the MBQC library, built for a node of this pattern
NewPatternOp ==
    /\ UNCHANGED rhs
    /\ objs = <<>>
    /\ cir.kind = "Pattern"
    /\ \E i \in 0..(cir.bg_qubit - 1), requires_grad \in BOOLEAN :
          /\ _convert_indices(<<i>>)
          /\ objs' = <<PatternOp("Measurement", <<i>>, requires_grad)>>
          /\ ctor' = [called |-> TRUE, ok |-> TRUE, nqubit |-> 0,
                      wires |-> <<i>>, controls |-> <<>>]
    /\ op' = "new"
    /\ UNCHANGED <<mpsVars, qasmVars>>
    /\ UNCHANGED <<gateVars, mpo, cells, cir, res>>

\* what a call leaves in res: how it ended, and its arguments when it wrote anything
Returned(call, outcome, args, wrote) ==
    IF wrote THEN [call |-> call, outcome |-> outcome, args |-> args]
    ELSE [call |-> call, outcome |-> outcome]

\* cir.add(op, encode=.., wires=..) with the constructed operator
CircuitAdd ==
    /\ UNCHANGED rhs
    /\ objs # <<>>
    /\ cir.kind = "QumodeCircuit"
    /\ Len(cir.operators) < MaxPlaced
    /\ \E encode \in BOOLEAN, wires \in IndexArgs(cir.nmode, Len(objs[1].wires)) :
          LET r == circuit_add(objs, cir, 1, encode, wires)
          IN  /\ objs' = r.heap
              /\ cir' = r.cir
              /\ res' = Returned("add", r.outcome, [encode |-> encode, index |-> wires],
                                 r.cir # cir)
    /\ op' = "add"
    /\ UNCHANGED <<mpsVars, qasmVars>>
    /\ UNCHANGED <<ctor, gateVars, mpo, cells>>

\* pattern.add(op, encode=.., node=..) with the constructed command
PatternAdd ==
    /\ UNCHANGED rhs
    /\ objs # <<>>
    /\ cir.kind = "Pattern"
    /\ Len(cir.cmds) < MaxPlaced
    /\ \E encode \in BOOLEAN, node \in IndexArgs(cir.bg_qubit, Len(objs[1].node)) :
          LET r == pattern_add(objs, cir, 1, encode, node)
          IN  /\ objs' = r.heap
              /\ cir' = r.cir
              /\ res' = Returned("add", r.outcome, [encode |-> encode, index |-> node],
                                 r.cir # cir)
    /\ op' = "add"
    /\ UNCHANGED <<mpsVars, qasmVars>>
    /\ UNCHANGED <<ctor, gateVars, mpo, cells>>

\* op.init_para(theta) through any placement of a PhaseShift
InitPara ==
    /\ UNCHANGED rhs
    /\ \E o \in 1..Len(objs), theta \in Thetas :
          /\ objs[o].cls = "PhaseShift"
          /\ LET r == init_para(objs, cells, o, theta)
             IN  /\ objs' = r.heap
                 /\ cells' = r.cells
          /\ res' = Returned("init_para", "ok", [theta |-> theta], TRUE)
    /\ op' = "init_para"
    /\ UNCHANGED <<mpsVars, qasmVars>>
    /\ UNCHANGED <<ctor, gateVars, mpo, cir>>

\* cir.encode(data) with data a 1D tensor of ndata entries, or one entry short
Encode ==
    /\ UNCHANGED rhs
    /\ cir.kind = "QumodeCircuit"
    /\ \E data \in [1..cir.ndata -> Thetas] \cup [1..(cir.ndata - 1) -> {0}] :
          IF Len(data) >= cir.ndata
          THEN LET r == EncodeLoop(objs, cells, cir.encoders, data, 1, 0)
               IN  /\ objs' = r.heap
                   /\ cells' = r.cells
                   /\ res' = Returned("encode", "ok", <<>>, TRUE)
          ELSE /\ UNCHANGED <<objs, cells>>
               /\ res' = Returned("encode", "AssertionError", <<>>, FALSE)
    /\ op' = "encode"
    /\ UNCHANGED <<mpsVars, qasmVars>>
    /\ UNCHANGED <<ctor, gateVars, mpo, cir>>

\* gate.get_mpo() on a qubit gate
GetMpoOp ==
    /\ UNCHANGED rhs
    /\ objs # <<>>
    /\ objs[1].cls = "Gate"
    /\ LET r == get_mpo(objs, 1)
       IN  /\ objs' = r.heap
           /\ mpo' = [tensors |-> r.tensors, index_left |-> r.index_left]
    /\ res' = Returned("get_mpo", "ok", <<>>, TRUE)
    /\ op' = "get_mpo"
    /\ UNCHANGED <<mpsVars, qasmVars>>
    /\ UNCHANGED <<ctor, gateVars, cells, cir>>

\* gate.forward(x) of a qubit gate on the state vector |0...0>
ForwardOp ==
    /\ UNCHANGED rhs
    /\ objs # <<>>
    /\ objs[1].cls = "Gate"
    /\ LET g == objs[1]
           x == [shape |-> <<1, Pow2(g.nqubit), 1>>, data |-> OneHotData(Pow2(g.nqubit), 1)]
           t == tensor_rep(g, x)
           y == op_state(g, t)
       IN  /\ xin' = t
           /\ xout' = y.out
           /\ pms' = y.pms
           /\ psi' = Squeeze0(vector_rep(g, y.out))
    /\ res' = Returned("forward", "ok", <<>>, TRUE)
    /\ op' = "op_state"
    /\ UNCHANGED <<mpsVars, qasmVars>>
    /\ UNCHANGED <<objs, ctor, nstep, mpo, cells, cir>>

NextCircuit ==
    \/ NewPhaseShift
    \/ NewQubitGate
    \/ NewPatternOp
    \/ CircuitAdd
    \/ PatternAdd
    \/ InitPara
    \/ Encode
    \/ GetMpoOp
    \/ ForwardOp

SpecCircuit == InitCircuit /\ [][NextCircuit]_vars

---------------------------------------------------------------------------
(* Builder methods of a circuit or a pattern *)

\* the node labels a caller names: every pattern has a label that is not an input
NodeLabels == 0..MaxMode

\* cir.ps(wires, inputs=.., encode=..)
Ps ==
    /\ UNCHANGED rhs
    /\ cir.kind = "QumodeCircuit"
    /\ Len(cir.operators) < MaxPlaced
    /\ \E w \in 0..(cir.nmode - 1), encode \in BOOLEAN,
          inputs \in {<<>>} \cup {<<t>> : t \in Thetas} :
       \E drawn \in (IF inputs = <<>> THEN Thetas ELSE {0}) :
          LET r == circuit_ps(objs, cells, cir, w, inputs, encode, drawn)
          IN  /\ objs' = r.heap
              /\ cells' = r.cells
              /\ cir' = r.cir
              /\ res' = Returned("ps", r.outcome,
                                 [encode |-> encode, wires |-> w, inputs |-> inputs], TRUE)
    /\ op' = "ps"
    /\ UNCHANGED <<mpsVars, qasmVars>>
    /\ UNCHANGED <<ctor, gateVars, mpo>>

\* what a builder call of a pattern leaves behind
PatternCall(call, node, r) ==
    /\ UNCHANGED rhs
    /\ objs' = r.heap
    /\ cir' = r.cir
    /\ res' = Returned(call, r.outcome, [node |-> node, node_list |-> cir.node_list],
                       r.cir # cir)
    /\ op' = call
    /\ UNCHANGED <<mpsVars, qasmVars>>
    /\ UNCHANGED <<ctor, gateVars, mpo, cells>>

\* pattern.n(node)
PatternN ==
    /\ cir.kind = "Pattern"
    /\ Len(cir.cmds) < MaxPlaced
    /\ \E node \in NodeLabels :
          PatternCall("n", <<node>>, pattern_n(objs, cir, node))

\* pattern.e([a, b])
PatternE ==
    /\ cir.kind = "Pattern"
    /\ Len(cir.cmds) < MaxPlaced
    /\ \E a \in NodeLabels, b \in NodeLabels :
          PatternCall("e", <<a, b>>, pattern_e(objs, cir, <<a, b>>))

\* pattern.m(node)
PatternM ==
    /\ cir.kind = "Pattern"
    /\ Len(cir.cmds) < MaxPlaced
    /\ \E node \in NodeLabels :
          PatternCall("m", <<node>>, pattern_m(objs, cir, node))

\* pattern.x(node)
PatternX ==
    /\ cir.kind = "Pattern"
    /\ Len(cir.cmds) < MaxPlaced
    /\ \E node \in NodeLabels :
          PatternCall("x", <<node>>,
                      pattern_correction(objs, cir, "XCorrection", node))

\* pattern.z(node)
PatternZ ==
    /\ cir.kind = "Pattern"
    /\ Len(cir.cmds) < MaxPlaced
    /\ \E node \in NodeLabels :
          PatternCall("z", <<node>>,
                      pattern_correction(objs, cir, "ZCorrection", node))

NextBuild ==
    \/ NewPhaseShift
    \/ NewPatternOp
    \/ CircuitAdd
    \/ PatternAdd
    \/ Ps
    \/ PatternN
    \/ PatternE
    \/ PatternM
    \/ PatternX
    \/ PatternZ

SpecBuild == InitCircuit /\ [][NextBuild]_vars

---------------------------------------------------------------------------
(* QASM export of customized gates *)

\* str.lower() on the names handed to qasm_customized
Lower(name) ==
    CASE name = "U" -> "u"
      [] OTHER -> name

\* the macro name of lines 204-208, as the pieces the f-strings join
MacroName(name, controls) ==
    IF Len(controls) > 2
    THEN <<"c", ToString(Len(controls)), Lower(name), "_">>
    ELSE Rep("c", Len(controls)) \o <<Lower(name), "_">>

\* qasm_customized answering as if the registry were empty
qasm_customized_always_declares(registry, g, name) ==
    LET macro == MacroName(name, g.controls)
        nc == Len(g.controls)
        qasm_str1 == [stmt |-> "gate", name |-> macro,
                      args |-> List([i \in 1..nc |-> i - 1])
                                 \o List([i \in 1..Len(g.wires) |-> nc + i - 1])]
        qasm_str2 == [stmt |-> "call", name |-> macro, args |-> g.controls \o g.wires]
    IN  [registry |-> Append(registry, macro), out |-> <<qasm_str1, qasm_str2>>]

\* Gate.qasm_customized(name): the statements returned and the registry after it.
\* A gate statement lists the formal qubits q0, q1, .. by number, a call
\* statement the indices inside q[..]
qasm_customized(registry, g, name) ==
    LET macro == MacroName(name, g.controls)
        nc == Len(g.controls)
        qasm_str1 == [stmt |-> "gate", name |-> macro,
                      args |-> List([i \in 1..nc |-> i - 1])
                                 \o List([i \in 1..Len(g.wires) |-> nc + i - 1])]
        qasm_str2 == [stmt |-> "call", name |-> macro, args |-> g.controls \o g.wires]
    IN  IF macro \notin Elems(registry)
        THEN [registry |-> Append(registry, macro), out |-> <<qasm_str1, qasm_str2>>]
        ELSE [registry |-> registry, out |-> <<qasm_str2>>]

\* the names handed to qasm_customized
QasmNames == {"U", "u"}

\* the gates exported: k controls listed upwards with one wire above them, or
\* listed downwards with two wires above them, themselves listed downwards
QasmGates ==
    {[controls |-> List([i \in 1..k |-> i - 1]), wires |-> <<MaxControls>>] :
        k \in 0..MaxControls}
      \cup {[controls |-> List([i \in 1..k |-> k - i]),
             wires |-> <<MaxControls + 2, MaxControls + 1>>] : k \in 1..MaxControls}

\* a process in which no export has started: the class body has run
InitQasm ==
    /\ rhs = NoCircuit
    /\ qasm_new_gate = <<>>
    /\ qasm_out = [run |-> 1, calls |-> <<>>]
    /\ objs = <<>>
    /\ ctor = [called |-> FALSE]
    /\ op = "init"
    /\ psi = NoTensor
    /\ xin = NoTensor
    /\ xout = NoTensor
    /\ pms = <<>>
    /\ nstep = 0
    /\ mpo = NoMpo
    /\ cells = <<>>
    /\ cir = NoCircuit
    /\ res = NoCall
    /\ mps = NoMps
    /\ mps_out = NoMps
    /\ log = NoLog

\* gate.qasm_customized(name) during the current export run
QasmCustomized ==
    /\ UNCHANGED rhs
    /\ Len(qasm_out.calls) < MaxQasmCalls
    /\ \E g \in QasmGates, name \in QasmNames :
          LET r == qasm_customized(qasm_new_gate, g, name)
          IN  /\ qasm_new_gate' = r.registry
              /\ qasm_out' = [qasm_out EXCEPT
                                 !.calls = Append(@, [gate |-> g, name |-> name,
                                                      out |-> r.out])]
    /\ op' = "qasm_customized"
    /\ UNCHANGED <<objs, ctor, gateVars, mpo, cirVars, mpsVars>>

\* the caller starts the export of another circuit: no statement of the source
\* touches Gate.qasm_new_gate between two exports
NewExport ==
    /\ UNCHANGED rhs
    /\ qasm_out.run < MaxExports
    /\ qasm_out.calls # <<>>
    /\ qasm_out' = [run |-> qasm_out.run + 1, calls |-> <<>>]
    /\ op' = "export"
    /\ UNCHANGED <<qasm_new_gate, objs, ctor, gateVars, mpo, cirVars, mpsVars>>

\* one export run
SpecQasm == InitQasm /\ [][QasmCustomized]_vars

NextExports == QasmCustomized \/ NewExport

\* several export runs in one process
SpecExports == InitQasm /\ [][NextExports]_vars

---------------------------------------------------------------------------
(* Reference operators: the full 2^n x 2^n matrix of a gate, written from  *)
(* the definition of a (controlled) unitary and not from the index         *)
(* bookkeeping above.  Qubit 0 is the most significant bit of a basis      *)
(* index and the first wire is the most significant bit of a matrix index. *)

\* bit of qubit q in the basis index r of an n-qubit system
QubitBit(r, q, n) == (r \div Pow2(n - 1 - q)) % 2

RECURSIVE LocalIndex(_, _, _, _)
\* index into the local matrix: the bits of r on wires[k..], first wire most significant
LocalIndex(r, wires, n, k) ==
    IF k > Len(wires) THEN 0
    ELSE QubitBit(r, wires[k], n) * Pow2(Len(wires) - k) + LocalIndex(r, wires, n, k + 1)

\* the controlled unitary on n qubits: U on the wires when all controls are 1,
\* the identity otherwise (with no controls: U embedded on the wires)
FullMatrix(nqubit, wires, controls, matrix) ==
    LET d == Pow2(nqubit)
        dt == Pow2(Len(wires))
        entry(r, c) ==
            IF \A k \in 1..Len(controls) : QubitBit(c, controls[k], nqubit) = 1
            THEN IF \A q \in (0..(nqubit - 1)) \ Elems(wires) :
                        QubitBit(r, q, nqubit) = QubitBit(c, q, nqubit)
                 THEN matrix.data[LocalIndex(r, wires, nqubit, 1) * dt
                                    + LocalIndex(c, wires, nqubit, 1) + 1]
                 ELSE CZero
            ELSE IF r = c THEN COne ELSE CZero
    IN  [shape |-> <<d, d>>,
         data  |-> List([o \in 1..(d * d) |-> entry((o - 1) \div d, (o - 1) % d)])]

\* conjugate transpose of a square matrix
Dagger(m) ==
    LET d == m.shape[1]
    IN  [shape |-> m.shape,
         data  |-> List([o \in 1..(d * d) |->
                      CConj(m.data[((o - 1) % d) * d + ((o - 1) \div d) + 1])])]

\* sample b (1-based) of a batch of rows x cols matrices stored flat
Sample(data, b, rows, cols) ==
    [shape |-> <<rows, cols>>,
     data  |-> SubSeq(data, (b - 1) * rows * cols + 1, b * rows * cols)]

RECURSIVE StateRefFrom(_, _, _, _)
StateRefFrom(full, data, d, b) ==
    IF (b - 1) * d >= Len(data) THEN <<>>
    ELSE MatMul(full, Sample(data, b, d, 1)).data \o StateRefFrom(full, data, d, b + 1)

\* full @ psi for every sample of a batch of state vectors
StateRef(full, data) == StateRefFrom(full, data, full.shape[1], 1)

RECURSIVE DenMatRefFrom(_, _, _, _)
DenMatRefFrom(full, data, d, b) ==
    IF (b - 1) * d * d >= Len(data) THEN <<>>
    ELSE MatMul(MatMul(full, Sample(data, b, d, d)), Dagger(full)).data
           \o DenMatRefFrom(full, data, d, b + 1)

\* full @ rho @ full^dagger for every sample of a batch of density matrices
DenMatRef(full, data) == DenMatRefFrom(full, data, full.shape[1], 1)

IsPermutationOf(pm, n) == Len(pm) = n /\ Elems(pm) = 0..(n - 1)

\* some control axis of the multi-index m is not 1
ControlOff(m, controls) == \E k \in 1..Len(controls) : m[controls[k] + 2] # 1

---------------------------------------------------------------------------
(* Matrix product states.  A chain is [nqubit, chi, center, tensors]; center *)
(* is -1 while the chain is not canonical.  A site is [shape, core]: shape   *)
(* is (left bond, 2, right bond) as the chain holds it, core holds the       *)
(* entries as the contraction left them (NoTensor where only the shapes are  *)
(* followed).  A re-factorization that discards nothing changes the factors  *)
(* of the chain and not their product, so the cores are left as they are.    *)

Min(a, b) == IF a < b THEN a ELSE b

Max(a, b) == IF a > b THEN a ELSE b

\* get_unitary of the gate classes: the controlled unitary on the gate's qubits
get_unitary(g) == FullMatrix(g.nqubit, g.wires, g.controls, g.matrix)

\* the unitary of the localized copy with its axes left as (out1, out2, .., in1,
\* in2, ..)
mpo_unitary_no_reorder(h, self) ==
    LET index == h[self].wires \o h[self].controls
        nindex == Len(index)
        index_sort == Sorted(index)
        index_local == List([k \in 1..nindex |-> IndexOf(index_sort, index[k]) - 1])
        c == copy(h, self)
        h1 == localize(c.heap, c.ref, index_local, nindex)
    IN  Reshape(get_unitary(h1[c.ref]), Rep(4, nindex))

\* lines 240-255 of get_mpo: the unitary of the localized copy with its axes
\* reordered from (out1, out2, .., in1, in2, ..) to (out1, in1, out2, in2, ..)
mpo_unitary(h, self) ==
    LET index == h[self].wires \o h[self].controls
        nindex == Len(index)
        index_sort == Sorted(index)
        index_local == List([k \in 1..nindex |-> IndexOf(index_sort, index[k]) - 1])
        c == copy(h, self)
        h1 == localize(c.heap, c.ref, index_local, nindex)
        u == get_unitary(h1[c.ref])
        order == List([k \in 1..(2 * nindex) |->
                         IF k % 2 = 1 THEN (k - 1) \div 2 ELSE nindex + (k - 2) \div 2])
    IN  Reshape(Permute(Reshape(u, Rep(2, 2 * nindex)), order), Rep(4, nindex))

\* the entries of state_to_tensors(u, nqubit=nindex, qudit=4), in the gauge where
\* the sites left of the middle carry their indices to the right, the sites right
\* of it carry theirs to the left, and the middle site holds u
state_to_tensors_data(u, nindex) ==
    LET h == nindex \div 2
        shapes == state_to_tensors(nindex)
        core(k) ==
            LET r == shapes[k].shape[3]
                n == shapes[k].shape[1] * 4 * r
                li(o) == (o - 1) \div (4 * r)
                pi(o) == ((o - 1) \div r) % 4
                ri(o) == (o - 1) % r
            IN  IF k = h + 1 THEN u.data
                ELSE IF k <= h
                THEN List([o \in 1..n |-> IF ri(o) = li(o) * 4 + pi(o)
                                          THEN COne ELSE CZero])
                ELSE List([o \in 1..n |-> IF li(o) = pi(o) * r + ri(o)
                                          THEN COne ELSE CZero])
    IN  List([k \in 1..nindex |-> core(k)])

\* the tensors get_mpo returns, the main tensors with their entries
mpo_with_data(tensors, cores) ==
    List([i \in 1..Len(tensors) |->
            IF tensors[i].kind = "main"
            THEN [shape |-> tensors[i].shape, data |-> cores[tensors[i].k]]
            ELSE [shape |-> tensors[i].shape, data |-> tensors[i].data]])

\* the entry of 'iabj,kbl->ikajl' at the index m = (i, k, a, j, l): the sum over b
einsum_entry(mpo_tensor, t, m, J, L) ==
    CSum([b \in 1..2 |->
            CMul(mpo_tensor.data[((m[1] * 2 + m[3]) * 2 + (b - 1)) * J + m[4] + 1],
                 t.data[(m[2] * 2 + (b - 1)) * L + m[5] + 1])], 1, 2)

\* the result of the einsum as a tensor of the shape (I, K, 2, J, L)
einsum_tensor(mpo_tensor, t, shape) ==
    [shape |-> shape,
     data |-> List([o \in 1..Numel(shape) |->
                      einsum_entry(mpo_tensor, t, Unravel(o - 1, shape),
                                   shape[4], shape[5])])]

\* torch.einsum('iabj,kbl->ikajl', mpo_tensor, t) for an unbatched site tensor
einsum_iabj_kbl(mpo_tensor, t) ==
    einsum_tensor(mpo_tensor, t,
                  <<mpo_tensor.shape[1], t.shape[1], 2, mpo_tensor.shape[4], t.shape[3]>>)

\* s = mps_tensor.shape; mps_tensor.reshape(s[-5] * s[-4], s[-3], s[-2] * s[-1])
reshape_bonds(x) ==
    Reshape(x, <<x.shape[1] * x.shape[2], x.shape[3], x.shape[4] * x.shape[5]>>)

\* lines 286-290 on one site: the einsum, then the reshape; of a site without
\* core only the shape is followed
contract_site(mpo_tensor, site) ==
    [shape |-> <<mpo_tensor.shape[1] * site.shape[1], site.shape[2],
                 mpo_tensor.shape[4] * site.shape[3]>>,
     core |-> IF site.core = NoTensor THEN NoTensor
              ELSE reshape_bonds(einsum_iabj_kbl(mpo_tensor, site.core))]

\* for i, mpo_tensor in enumerate(mpo_tensors): mps_tensors[left + i] = ...
\* reading mps_tensors[left + i] past the end of the list raises IndexError
RECURSIVE contract_loop(_, _, _, _, _)
contract_loop(mps_tensors, mpo_tensors, left, i, steps) ==
    IF i >= Len(mpo_tensors)
    THEN [tensors |-> mps_tensors, steps |-> steps, outcome |-> "ok"]
    ELSE IF left + i >= Len(mps_tensors)
    THEN [tensors |-> mps_tensors, steps |-> steps, outcome |-> "IndexError"]
    ELSE contract_loop(
            [mps_tensors EXCEPT ![left + i + 1] =
                                    contract_site(mpo_tensors[i + 1], mps_tensors[left + i + 1])],
            mpo_tensors, left, i + 1,
            Append(steps, [step |-> "contract", i |-> i, site |-> left + i]))

\* the cuts a sweep towards site c passes: every cut of a chain that is not
\* canonical, the cuts between the old center and c of one that is.  Cut k lies
\* between site k and site k + 1
swept_cuts(m, c) ==
    IF m.center = -1 THEN 0..(m.nqubit - 2)
    ELSE Min(m.center, c)..(Max(m.center, c) - 1)

\* a chain that is not canonical is declared canonical at c without a sweep
center_orthogonalization_no_sweep(m, c, dc) ==
    IF c < 0 \/ c >= m.nqubit THEN [mps |-> m, outcome |-> "AssertionError"]
    ELSE IF m.center = -1 THEN [mps |-> [m EXCEPT !.center = c], outcome |-> "ok"]
    ELSE LET cuts == Min(m.center, c)..(Max(m.center, c) - 1)
             bond(k, b) == IF k \in cuts THEN Min(b, dc) ELSE b
         IN  [mps |-> [m EXCEPT
                         !.center = c,
                         !.tensors = List([k \in 1..m.nqubit |->
                             [m.tensors[k] EXCEPT
                                !.shape = <<bond(k - 2, m.tensors[k].shape[1]),
                                            m.tensors[k].shape[2],
                                            bond(k - 1, m.tensors[k].shape[3])>>]])],
              outcome |-> "ok"]

\* MatrixProductState.center_orthogonalization(c, dc): every swept cut is cut
\* down to dc and the center is c afterwards; a site outside the chain is refused
center_orthogonalization(m, c, dc) ==
    IF c < 0 \/ c >= m.nqubit THEN [mps |-> m, outcome |-> "AssertionError"]
    ELSE LET cuts == swept_cuts(m, c)
             bond(k, b) == IF k \in cuts THEN Min(b, dc) ELSE b
         IN  [mps |-> [m EXCEPT
                         !.center = c,
                         !.tensors = List([k \in 1..m.nqubit |->
                             [m.tensors[k] EXCEPT
                                !.shape = <<bond(k - 2, m.tensors[k].shape[1]),
                                            m.tensors[k].shape[2],
                                            bond(k - 1, m.tensors[k].shape[3])>>]])],
              outcome |-> "ok"]

\* op_mps going on to the contraction with the chain as it was handed in
center_to_left_skipped(m, left) == [mps |-> m, outcome |-> "ok"]

\* line 283: mps.center_orthogonalization(left, dc=mps.chi, ..), in place
center_to_left(m, left) == center_orthogonalization(m, left, m.chi)

\* MatrixProductState(nqubit=.., state=mps_tensors, chi=.., normalize=..): a chain
\* built from a list of site tensors is not canonical
MatrixProductState(nqubit, state, chi) ==
    [nqubit |-> nqubit, chi |-> chi, center |-> -1, tensors |-> state]

\* the tensors of get_mpo, with their entries for a chain that has entries
op_mps_tensors(h, self, r, m) ==
    IF m.tensors[1].core = NoTensor THEN r.tensors
    ELSE mpo_with_data(r.tensors,
                       state_to_tensors_data(mpo_unitary(h, self),
                                             Len(h[self].wires) + Len(h[self].controls)))

\* what a call of op_mps leaves: the heap, the chain handed in as the call leaves
\* it, the chain returned and the steps in the order they ran
op_mps_result(heap, m, c, steps) ==
    [heap |-> heap, mps |-> m, out |-> c.mps, steps |-> steps, outcome |-> c.outcome]

\* lines 293-295: the chain built from the contracted tensors is canonicalized at
\* the last acted site and returned
op_mps_return(heap, after, loop, right) ==
    op_mps_result(heap, after,
                  center_orthogonalization(
                      MatrixProductState(after.nqubit, loop.tensors, after.chi),
                      right, after.chi),
                  Append(loop.steps, [step |-> "center", i |-> 1, site |-> right]))

\* after the loop of lines 285-292, which wrote into the list the chain holds
op_mps_contracted(heap, m, loop, right) ==
    IF loop.outcome # "ok"
    THEN op_mps_result(heap, [m EXCEPT !.tensors = loop.tensors],
                       [mps |-> NoMps, outcome |-> loop.outcome], loop.steps)
    ELSE op_mps_return(heap, [m EXCEPT !.tensors = loop.tensors], loop, right)

\* after line 283: the loop runs on mps.tensors of the canonicalized chain
op_mps_centered(heap, c1, mpo_tensors, left) ==
    IF c1.outcome # "ok"
    THEN op_mps_result(heap, c1.mps, [mps |-> NoMps, outcome |-> c1.outcome], <<>>)
    ELSE op_mps_contracted(heap, c1.mps,
                           contract_loop(c1.mps.tensors, mpo_tensors, left, 0,
                                         <<[step |-> "center", i |-> 0, site |-> left]>>),
                           left + Len(mpo_tensors) - 1)

\* lines 282-283: mpo_tensors, left = self.get_mpo(); the first canonicalization
op_mps_mpo(h, self, m, r) ==
    op_mps_centered(r.heap, center_to_left(m, r.index_left),
                    op_mps_tensors(h, self, r, m), r.index_left)

\* Gate.op_mps(mps)
op_mps(h, self, m) == op_mps_mpo(h, self, m, get_mpo(h, self))

\* the dense vector of a chain with cores: the site tensors contracted in order
RECURSIVE contract_chain(_, _, _)
contract_chain(tensors, k, acc) ==
    IF k > Len(tensors) THEN acc
    ELSE LET t == tensors[k].core
             x == MatMul(acc, Reshape(t, <<t.shape[1], 2 * t.shape[3]>>))
         IN  contract_chain(tensors, k + 1, Reshape(x, <<2 * acc.shape[1], t.shape[3]>>))

to_dense(m) ==
    contract_chain(m.tensors, 1, [shape |-> <<1, 1>>, data |-> <<COne>>])

\* the bond caps explored
ChiValues == 1..MaxChi

\* a chain of n sites of which only the shapes are followed: every inner bond is b
ShapeChain(n, chi, center, b) ==
    [nqubit |-> n, chi |-> chi, center |-> center,
     tensors |-> List([k \in 1..n |->
                         [shape |-> <<IF k = 1 THEN 1 ELSE b, 2, IF k = n THEN 1 ELSE b>>,
                          core |-> NoTensor]])]

\* the chains handed to op_mps of which only the shapes are followed: any cap, not
\* canonical or canonical at any site, all inner bonds 1 or all inner bonds 2
\* where the cap allows it
MpsShapeInputs ==
    UNION {UNION {{ShapeChain(n, chi, center, b) :
                      center \in (-1)..(n - 1), b \in 1..Min(chi, 2)} :
                  chi \in ChiValues} : n \in 1..MaxMpsQubit}

\* a chain with entries: the basis state |1..1> with bonds 1 (b = 1) or a chain
\* with inner bonds 2 and entries without symmetry (b = 2)
DenseChain(n, chi, center, b) ==
    [nqubit |-> n, chi |-> chi, center |-> center,
     tensors |-> List([k \in 1..n |->
        LET shape == <<IF k = 1 THEN 1 ELSE b, 2, IF k = n THEN 1 ELSE b>>
        IN  [shape |-> shape,
             core |-> [shape |-> shape,
                       data |-> IF b = 1 THEN OneHotData(2, 2)
                                ELSE GenericData(Numel(shape))]]])]

\* the smallest cap that loses nothing on n qubits: chi * chi >= 2^n
LosslessChi(n) == CHOOSE chi \in 1..Pow2(n) :
                      /\ chi * chi >= Pow2(n)
                      /\ \A c \in 1..(chi - 1) : c * c < Pow2(n)

\* the chains with entries handed to op_mps: the cap is the smallest lossless one
\* or one above it
MpsDenseInputs ==
    UNION {{DenseChain(n, chi, center, b) :
               chi \in {LosslessChi(n), LosslessChi(n) + 1},
               center \in {-1, 0}, b \in 1..Min(LosslessChi(n), 2)} :
           n \in 1..MaxMpsQubit}

---------------------------------------------------------------------------
(* Gates applied to a matrix product state *)

InitChain(chains) ==
    /\ rhs = NoCircuit
    /\ mps \in chains
    /\ mps_out = NoMps
    /\ log = NoLog
    /\ objs = <<>>
    /\ ctor = [called |-> FALSE]
    /\ op = "init"
    /\ psi = NoTensor
    /\ xin = NoTensor
    /\ xout = NoTensor
    /\ pms = <<>>
    /\ nstep = 0
    /\ mpo = NoMpo
    /\ cells = <<>>
    /\ cir = NoCircuit
    /\ res = NoCall
    /\ qasm_new_gate = <<>>
    /\ qasm_out = <<>>

\* a chain of which only the shapes are followed
InitMps == InitChain(MpsShapeInputs)

\* a chain with entries and a cap that loses nothing
InitMpsDense == InitChain(MpsDenseInputs)

\* Gate(nqubit=.., wires=.., controls=..) built for the chain, or for a register
\* one qubit larger and acting on its last qubit, on at most MaxArgLen sites in
\* all; the entries of its matrix matter only to a chain with entries
NewMpsGate ==
    /\ UNCHANGED rhs
    /\ objs = <<>>
    /\ \E nqubit \in {mps.nqubit, mps.nqubit + 1} :
       \E wires \in {w \in IndexLists(nqubit) : GateInitOk(nqubit, w, <<>>)} :
       \E controls \in {c \in IndexLists(nqubit) : Len(wires) + Len(c) <= MaxArgLen} :
          /\ GateInitOk(nqubit, wires, controls)
          /\ mps.tensors[1].core # NoTensor => nqubit = mps.nqubit
          /\ nqubit > mps.nqubit => mps.nqubit \in Elems(wires \o controls)
          /\ \E matrix \in Matrices(Len(wires)) :
                /\ mps.tensors[1].core = NoTensor => matrix # PauliX
                /\ objs' = <<GateObject(nqubit, wires, controls, matrix, FALSE)>>
          /\ ctor' = [called |-> TRUE, ok |-> TRUE, nqubit |-> nqubit,
                      wires |-> wires, controls |-> controls]
    /\ op' = "new"
    /\ UNCHANGED <<gateVars, mpo, cirVars, mpsVars, qasmVars>>

\* what the call r = op_mps(x) leaves behind
OpMpsDone(x, r) ==
    /\ objs' = r.heap
    /\ mps' = r.mps
    /\ mps_out' = r.out
    /\ log' = [input |-> x, steps |-> r.steps, outcome |-> r.outcome]
    /\ op' = IF r.outcome = "ok" THEN "op_mps" ELSE "raised"

\* return self.op_mps(x)
OpMpsOn(x) == OpMpsDone(x, op_mps(objs, 1, x))

\* gate.forward(x) for a MatrixProductState x: the chain handed in is the one the
\* last call returned, if any.  A chain with entries is taken fresh, and no call
\* follows one that raised
OpMps ==
    /\ UNCHANGED rhs
    /\ objs # <<>>
    /\ nstep < MaxMpsApply
    /\ op # "raised"
    /\ mps.tensors[1].core # NoTensor => mps_out = NoMps
    /\ OpMpsOn(IF mps_out = NoMps THEN mps ELSE mps_out)
    /\ nstep' = nstep + 1
    /\ UNCHANGED <<ctor, psi, xin, xout, pms, mpo, cirVars, qasmVars>>

NextMps == NewMpsGate \/ OpMps

SpecMps == InitMps /\ [][NextMps]_vars

SpecMpsDense == InitMpsDense /\ [][NextMps]_vars

---------------------------------------------------------------------------
(* Properties *)

\* C1: after op_state_control, every amplitude whose control bits are not all 1
\* equals the input amplitude at the same basis index, for any wires and controls.
C1_ControlFrame ==
    (op = "op_state" /\ objs[1].controls # <<>>) =>
        /\ xout.shape = xin.shape
        /\ \A o \in 1..Len(xin.data) :
              ControlOff(Unravel(o - 1, xin.shape), objs[1].controls)
                  => xout.data[o] = xin.data[o]

\* a controlled gate with non-adjacent, unsorted controls has acted and changed the
\* state, while some non-zero amplitude sits on a control combination that is off
C1_Witness ==
    /\ op = "op_state"
    /\ objs[1].wires = <<1>> /\ objs[1].controls = <<2, 0>>
    /\ xout # xin
    /\ \E o \in 1..Len(xin.data) :
          /\ ControlOff(Unravel(o - 1, xin.shape), objs[1].controls)
          /\ xin.data[o] # CZero

\* C2: op_state_control equals the full controlled-U operator applied to the input:
\* U acts (first wire most significant) exactly where all controls are 1, and no
\* control combination is transformed otherwise or dropped.
C2_ControlledUnitary ==
    (op = "op_state" /\ objs[1].controls # <<>>) =>
        /\ xout.shape = xin.shape
        /\ xout.data = StateRef(FullMatrix(objs[1].nqubit, objs[1].wires,
                                           objs[1].controls, objs[1].matrix), xin.data)

\* a two-wire gate with wires in descending order around its control has acted
C2_Witness ==
    /\ op = "op_state"
    /\ objs[1].wires = <<2, 0>> /\ objs[1].controls = <<1>>
    /\ Len(xin.data) = 2 * Pow2(3)
    /\ xout # xin

\* C3: op_den_mat_base gives U_full rho U_full^dagger, with U_full the gate matrix
\* embedded on the target wires, for every wire subset and ordering.
C3_DenMatBase ==
    (op = "op_den_mat" /\ objs[1].controls = <<>>) =>
        /\ xout.shape = xin.shape
        /\ xout.data = DenMatRef(FullMatrix(objs[1].nqubit, objs[1].wires, <<>>,
                                            objs[1].matrix), xin.data)

\* a complex two-wire gate with wires in descending order has acted on a 2-qubit
\* density matrix
C3_Witness ==
    /\ op = "op_den_mat"
    /\ objs[1].nqubit = 2 /\ objs[1].wires = <<1, 0>> /\ objs[1].controls = <<>>
    /\ \E k \in 1..Len(objs[1].matrix.data) : objs[1].matrix.data[k][2] # 0
    /\ xout # xin

\* C4: the pm_shape of op_state_base / op_state_control is a permutation of 0..n:
\* the target axes first in the order of wires, then every other axis (batch axis
\* included) in ascending order, then the control axes in the order of controls;
\* and the returned tensor has the shape of the input.
C4_PermutationLayout ==
    op = "op_state" =>
        LET g == objs[1]
            pm == pms[1].pm
            nt == Len(g.wires)
            nc == Len(g.controls)
            n == g.nqubit
        IN  /\ IsPermutationOf(pm, n + 1)
            /\ \A k \in 1..nt : pm[k] = g.wires[k] + 1
            /\ \A k \in 1..nc : pm[n + 1 - nc + k] = g.controls[k] + 1
            /\ \A i, j \in (nt + 1)..(n + 1 - nc) : i < j => pm[i] < pm[j]
            /\ \E i \in (nt + 1)..(n + 1 - nc) : pm[i] = 0
            /\ xout.shape = xin.shape

\* non-contiguous wires given in descending order, with a control between them, on a
\* batch of two samples
C4_Witness ==
    /\ op = "op_state"
    /\ objs[1].wires = <<2, 0>> /\ objs[1].controls = <<1>>
    /\ pms[1].pm = <<3, 1, 0, 2>>
    /\ xin.shape = <<2, 2, 2, 2>>

\* C5: every pm_shape the application routines build, composed with the permutation
\* used to restore the axes, is the identity ordering (pure state and density
\* matrix, with and without controls).
C5_InverseComposes ==
    op \in {"op_state", "op_den_mat"} =>
        /\ Len(pms) = (IF op = "op_state" THEN 1 ELSE 2)
        /\ \A i \in 1..Len(pms) :
              /\ IsPermutationOf(pms[i].pm, Len(xin.shape))
              /\ Len(pms[i].inv) = Len(pms[i].pm)
              /\ \A k \in 1..Len(pms[i].pm) : pms[i].pm[pms[i].inv[k] + 1] = k - 1
        /\ xout.shape = xin.shape

\* a controlled density-matrix application whose pm_shape is not its own inverse
C5_Witness ==
    /\ op = "op_den_mat"
    /\ objs[1].controls # <<>>
    /\ \E i \in 1..Len(pms) : pms[i].inv # pms[i].pm

\* the argument lists a Gate must reject, stated on the lists themselves
BadIndexLists(nqubit, wires, controls) ==
    \/ \E k \in 1..Len(wires) : wires[k] < 0 \/ wires[k] >= nqubit
    \/ \E k \in 1..Len(controls) : controls[k] < 0 \/ controls[k] >= nqubit
    \/ ~NoDup(wires)
    \/ ~NoDup(controls)
    \/ \E i \in 1..Len(wires), j \in 1..Len(controls) : wires[i] = controls[j]

\* C6: Gate.__init__ fails, leaving no gate to operate with, whenever an index is
\* negative or >= nqubit, a list has a duplicate, or wires and controls overlap; so
\* every constructed Gate has disjoint duplicate-free in-range wires and controls.
C6_ConstructionValidation ==
    /\ (ctor.called /\ BadIndexLists(ctor.nqubit, ctor.wires, ctor.controls))
          => (~ctor.ok /\ objs = <<>> /\ xout = NoTensor)
    /\ objs # <<>> =>
          ~BadIndexLists(objs[1].nqubit, objs[1].wires, objs[1].controls)

\* a call whose lists are each valid but share an index was made and rejected
C6_Witness ==
    /\ ctor.called /\ ~ctor.ok
    /\ ctor.nqubit = 3 /\ ctor.wires = <<0, 1>> /\ ctor.controls = <<2, 1>>
    /\ objs = <<>>

\* the axis indices of an operator object and the number of axes of a container
Indices(o) == IF o.cls \in {"Entanglement", "Measurement"} THEN o.node ELSE o.wires

NAxes(c) == IF c.kind = "Pattern" THEN c.bg_qubit ELSE c.nmode

OutOfRange(c, indices) == \E k \in 1..Len(indices) : indices[k] < 0 \/ indices[k] >= NAxes(c)

\* C7: an index list w with an index outside the axes of the circuit or pattern is
\* rejected by add(op, wires=w) / add(op, node=w): such a call does not return, and
\* no operator stored through a remap carries an out-of-range axis
C7_OutOfRangeRejectedAtAdd ==
    /\ (res.call = "add" /\ res.outcome = "ok" /\ res.args.index # <<>>)
          => ~OutOfRange(cir, res.args.index[1])
    /\ \A k \in 1..Len(Stored(cir)) :
          Stored(cir)[k] > 1 => ~OutOfRange(cir, Indices(objs[Stored(cir)[k]]))

\* Pattern.add returned after storing a copy of the command on node -1
C7_Witness ==
    /\ cir.kind = "Pattern"
    /\ res.call = "add" /\ res.outcome = "ok" /\ res.args.index = <<(<<-1>>)>>
    /\ Len(cir.cmds) = 1
    /\ objs[cir.cmds[1]].node = <<-1>>

\* C8: after any sequence of forward and get_mpo calls on a gate and of add calls
\* that place an operator, the constructed object still has the wires, controls and
\* nqubit (nmode) it was constructed with
C8_StructureFixed ==
    objs # <<>> =>
        LET g == objs[1]
        IN  CASE g.cls = "Gate" ->
                   /\ g.wires = ctor.wires
                   /\ g.controls = ctor.controls
                   /\ g.nqubit = ctor.nqubit
              [] g.cls = "PhaseShift" -> g.wires = ctor.wires /\ g.nmode = ctor.nqubit
              [] OTHER -> g.node = ctor.wires

\* forward and get_mpo both ran on a gate whose local indices inside get_mpo
\* (wires [1], controls [0], nqubit 2) differ from its own
C8_Witness ==
    /\ objs # <<>>
    /\ objs[1].cls = "Gate"
    /\ ctor.nqubit = 3 /\ ctor.wires = <<2>> /\ ctor.controls = <<0>>
    /\ xout # NoTensor
    /\ op = "get_mpo"
    /\ Len(mpo.tensors) = 3

\* every placement of the PhaseShift reads the same theta, and the value written by
\* the last init_para is the value read through each of them
C9_SameTheta ==
    (objs # <<>> /\ objs[1].cls = "PhaseShift") =>
        \A a \in 1..Len(objs) :
           /\ Theta(objs, cells, a) = Theta(objs, cells, 1)
           /\ (res.call = "init_para" => Theta(objs, cells, a) = res.args.theta)

\* a step changes the wires of no existing placement, and a placement added with
\* wires=w has exactly w
C9_OwnWires ==
    (objs # <<>> /\ objs[1].cls = "PhaseShift") =>
        /\ Len(objs') >= Len(objs)
        /\ \A a \in 1..Len(objs) : objs'[a].wires = objs[a].wires
        /\ Len(objs') > Len(objs) =>
              /\ res'.call = "add" /\ res'.args.index # <<>>
              /\ objs'[Len(objs')].wires = res'.args.index[1]

\* C9: the original PhaseShift and every copy placed by add(op, wires=w) read the
\* same parameter value in every reachable state, whichever placement init_para or
\* encode wrote it through, while each placement keeps its own wires
C9_SharedParameters == []C9_SameTheta /\ [][C9_OwnWires]_vars

\* the original on mode 0 and a shared copy on mode 1 both read theta = 1 after
\* encode wrote it through the copy, which is the circuit's encoder
C9_Witness ==
    /\ cir.kind = "QumodeCircuit"
    /\ Len(objs) = 2
    /\ objs[1].cls = "PhaseShift"
    /\ objs[1].wires = <<0>> /\ objs[2].wires = <<1>>
    /\ cir.encoders = <<2>>
    /\ res.call = "encode" /\ res.outcome = "ok"
    /\ Theta(objs, cells, 1) = 1 /\ Theta(objs, cells, 2) = 1
    /\ objs[1].matrix = get_matrix(0) /\ objs[2].matrix = get_matrix(1)

\* C10: get_mpo returns exactly max(S) - min(S) + 1 tensors and index_left = min(S),
\* S being the wires and controls; the tensor at position p is the gate's own site
\* tensor when site min(S) + p is in S (in ascending site order) and otherwise an
\* identity tensor of shape (chi, 2, 2, chi) with entries delta_ij delta_ab, chi
\* being the right bond of the tensor before it; adjacent tensors agree on their bond
C10_MpoChain ==
    op = "get_mpo" =>
        LET S == Elems(ctor.wires) \cup Elems(ctor.controls)
            lo == CHOOSE v \in S : \A w \in S : v <= w
            hi == CHOOSE v \in S : \A w \in S : v >= w
            T == mpo.tensors
        IN  /\ Len(T) = hi - lo + 1
            /\ mpo.index_left = lo
            /\ \A p \in 0..(hi - lo) :
                  IF lo + p \in S
                  THEN /\ T[p + 1].kind = "main"
                       /\ T[p + 1].k = Cardinality({s \in S : s <= lo + p})
                  ELSE LET chi == T[p].shape[4]
                       IN  /\ T[p + 1].kind = "identity"
                           /\ T[p + 1].shape = <<chi, 2, 2, chi>>
                           /\ \A k \in 1..Len(T[p + 1].data) :
                                 LET ix == Unravel(k - 1, T[p + 1].shape)
                                 IN  T[p + 1].data[k] =
                                        IF ix[1] = ix[4] /\ ix[2] = ix[3]
                                        THEN COne ELSE CZero
            /\ \A p \in 1..(Len(T) - 1) : T[p].shape[4] = T[p + 1].shape[1]

\* a chain with two identity tensors in a row on a bond larger than one
C10_Witness ==
    /\ op = "get_mpo"
    /\ \E p \in 1..(Len(mpo.tensors) - 1) :
          /\ mpo.tensors[p].kind = "identity"
          /\ mpo.tensors[p + 1].kind = "identity"
          /\ mpo.tensors[p].shape[1] > 1

\* C17: the CNOT gate (nqubit 2, wires [1], controls [0], matrix X) returns
\* [1,0,0,0] for the input [1,0,0,0] and [0,0,0,1] for the input [0,0,1,0].
C17_ControlledNot ==
    (/\ op = "op_state"
     /\ objs[1].nqubit = 2 /\ objs[1].wires = <<1>> /\ objs[1].controls = <<0>>
     /\ objs[1].matrix = PauliX) =>
        /\ xin.data = OneHotData(4, 1) => psi.data = OneHotData(4, 1)
        /\ xin.data = OneHotData(4, 3) => psi.data = OneHotData(4, 4)

\* the CNOT gate has been applied to [0,0,1,0] and returned [0,0,0,1]
C17_Witness ==
    /\ op = "op_state"
    /\ objs[1].nqubit = 2 /\ objs[1].wires = <<1>> /\ objs[1].controls = <<0>>
    /\ objs[1].matrix = PauliX
    /\ xin.data = OneHotData(4, 3)
    /\ psi.data = OneHotData(4, 4)

\* C18: a Gate constructed with wires = [] is accepted, whatever valid controls
\* it is given.
C18_EmptyWiresAccepted ==
    (/\ ctor.called
     /\ ctor.wires = <<>>
     /\ \A k \in 1..Len(ctor.controls) :
           ctor.controls[k] > -1 /\ ctor.controls[k] < ctor.nqubit
     /\ Cardinality(Elems(ctor.controls)) = Len(ctor.controls)) => ctor.ok

\* Gate(nqubit, wires=[]) has been called with no controls and raised
C18_Witness ==
    /\ ctor.called
    /\ ctor.wires = <<>> /\ ctor.controls = <<>>
    /\ ~ctor.ok

C20_PreparedNodesOnly ==
    /\ (res.call \in {"e", "m", "x", "z"} /\ res.outcome = "ok")
           => \A k \in 1..Len(res.args.node) :
                 res.args.node[k] \in Elems(res.args.node_list)
    /\ (res.call = "n" /\ res.outcome = "ok")
           => res.args.node[1] \notin Elems(res.args.node_list)

\* m(node) returned normally for a node that no n() call and no input prepared, and
\* the Measurement on it is the last command of the pattern
C20_Witness ==
    /\ res.call = "m" /\ res.outcome = "ok"
    /\ res.args.node[1] \notin Elems(cir.node_list)
    /\ objs[cir.cmds[Len(cir.cmds)]].cls = "Measurement"
    /\ objs[cir.cmds[Len(cir.cmds)]].node = res.args.node

\* the macro name a call of the current export run refers to
MacroOf(k) == qasm_out.calls[k].out[Len(qasm_out.calls[k].out)].name

\* call k is the first of the current export run to use its macro name
FirstUse(k) == \A j \in 1..(k - 1) : MacroOf(j) # MacroOf(k)

C15_RegistryPerExport ==
    \A k \in 1..Len(qasm_out.calls) :
        FirstUse(k) => /\ Len(qasm_out.calls[k].out) = 2
                       /\ qasm_out.calls[k].out[1].stmt = "gate"

\* the first call of a second export run returned a reference with no declaration
C15_Witness ==
    /\ qasm_out.run = 2
    /\ Len(qasm_out.calls) = 1
    /\ Len(qasm_out.calls[1].out) = 1
    /\ qasm_out.calls[1].out[1].stmt = "call"

\* the sites a gate acts on, and the first and the last of them
GateIndex == objs[1].wires \o objs[1].controls

GateLeft == SeqMin(GateIndex)

GateRight == SeqMax(GateIndex)

\* C11: op_mps first moves the center of the chain handed in to the leftmost
\* acted site, then contracts MPO tensor i with site left+i once each, for i =
\* 0..len-1 in this order, and touches no other site; the chain returned is
\* canonical with its center at left+len-1, whatever the center was before.
C11_FixedOrder ==
    op = "op_mps" =>
        LET len == GateRight - GateLeft + 1
            steps == log.steps
            centered == center_orthogonalization(log.input, GateLeft, log.input.chi).mps
            mpo_tensors == get_mpo(objs, 1).tensors
        IN  /\ Len(steps) = len + 2
            /\ steps[1] = [step |-> "center", i |-> 0, site |-> GateLeft]
            /\ \A i \in 0..(len - 1) :
                  steps[i + 2] = [step |-> "contract", i |-> i, site |-> GateLeft + i]
            /\ steps[len + 2] = [step |-> "center", i |-> 1, site |-> GateRight]
            /\ mps.center = GateLeft
            /\ \A k \in 1..mps.nqubit :
                  IF k - 1 < GateLeft \/ k - 1 > GateRight
                  THEN mps.tensors[k] = centered.tensors[k]
                  ELSE mps.tensors[k].shape =
                         <<mpo_tensors[k - GateLeft].shape[1] * centered.tensors[k].shape[1],
                           2,
                           mpo_tensors[k - GateLeft].shape[4] * centered.tensors[k].shape[3]>>
            /\ mps_out.center = GateRight

\* a chain of three sites that was canonical at its last site took a gate on
\* sites 0 and 1: its center went to site 0 and the chain returned has it at 1
C11_Witness ==
    /\ op = "op_mps"
    /\ log.input.nqubit = 3 /\ log.input.center = 2
    /\ GateLeft = 0 /\ GateRight = 1
    /\ mps.center = 0
    /\ mps_out.center = 1
    /\ mps.tensors[3] = log.input.tensors[3]

\* C12: whatever gates were applied through op_mps before, the chain returned has
\* no bond above chi and neighbouring sites agree on the bond between them.
C12_BondsCapped ==
    op = "op_mps" =>
        /\ \A k \in 1..mps_out.nqubit :
              /\ mps_out.tensors[k].shape[1] <= mps_out.chi
              /\ mps_out.tensors[k].shape[3] <= mps_out.chi
        /\ \A k \in 1..(mps_out.nqubit - 1) :
              mps_out.tensors[k].shape[3] = mps_out.tensors[k + 1].shape[1]
        /\ mps_out.tensors[1].shape[1] = 1
        /\ mps_out.tensors[mps_out.nqubit].shape[3] = 1

\* a second gate in a row was applied, its contraction left a bond above chi, and
\* the chain returned has that bond cut down to chi
C12_Witness ==
    /\ op = "op_mps" /\ nstep = 2
    /\ \E k \in 1..(mps.nqubit - 1) :
          /\ mps.tensors[k].shape[3] > mps.chi
          /\ mps_out.tensors[k].shape[3] = mps_out.chi

\* C13: a call of op_mps with a gate that has a wire or a control outside the
\* sites of the chain raises and leaves the chain handed in as it was.
C13_OutOfRangeValidated ==
    (/\ log.outcome # None
     /\ \E k \in 1..Len(GateIndex) : GateIndex[k] >= log.input.nqubit)
        => /\ log.outcome # "ok"
           /\ mps = log.input

\* a gate on sites 1 and 3 of a register of four was applied to a chain of three
\* sites: the call raised IndexError after it had moved the center of the chain and
\* replaced its sites 1 and 2
C13_Witness ==
    /\ log.outcome = "IndexError"
    /\ log.input.nqubit = 3 /\ log.input.center = -1
    /\ GateLeft = 1 /\ GateRight = 3
    /\ mps.center = 1
    /\ mps.tensors[1] = log.input.tensors[1]
    /\ mps.tensors[2].shape[3] > log.input.tensors[2].shape[3]
    /\ mps.tensors[3].shape[1] > log.input.tensors[3].shape[1]

\* C19: for a chain whose cap loses nothing (chi * chi >= 2^n), the dense vector
\* of the chain op_mps returns equals op_state applied to the dense vector of the
\* chain handed in, for every gate.
C19_MpsMatchesDense ==
    (/\ op = "op_mps"
     /\ log.input.tensors[1].core # NoTensor
     /\ log.input.chi * log.input.chi >= Pow2(log.input.nqubit)) =>
        LET g == objs[1]
            x == [shape |-> <<1, Pow2(g.nqubit), 1>>, data |-> to_dense(log.input).data]
        IN  to_dense(mps_out).data = op_state(g, tensor_rep(g, x)).out.data

\* a controlled gate on sites 2 and 0 was applied to a chain of three sites with
\* inner bonds 2 and the smallest cap that loses nothing, through an identity
\* tensor at site 1, and changed the state
C19_Witness ==
    /\ op = "op_mps"
    /\ log.input.nqubit = 3 /\ log.input.chi = 3
    /\ log.input.tensors[1].core # NoTensor
    /\ log.input.tensors[2].shape = <<2, 2, 2>>
    /\ objs[1].wires = <<2>> /\ objs[1].controls = <<0>>
    /\ to_dense(mps_out).data # to_dense(log.input).data

\* all control bits of the basis index r are 1
ControlsOn(r) ==
    \A k \in 1..Len(objs[1].controls) :
        QubitBit(r, objs[1].controls[k], objs[1].nqubit) = 1

\* the batch of matrices data is Hermitian, sample by sample
IsHermitian(data, d) ==
    \A o \in 1..Len(data) :
        LET b == (o - 1) \div (d * d)
            r == ((o - 1) \div d) % d
            c == (o - 1) % d
        IN  data[o] = CConj(data[b * d * d + c * d + r + 1])

\* C25: op_den_mat_control gives CU rho CU^dagger with CU the full controlled
\* unitary; an entry whose ket controls and bra controls are both not all 1 is
\* unchanged; a Hermitian input gives a Hermitian output.
C25_DenMatControl ==
    (op = "op_den_mat" /\ objs[1].controls # <<>>) =>
        LET d == Pow2(objs[1].nqubit)
        IN  /\ xout.shape = xin.shape
            /\ xout.data = DenMatRef(FullMatrix(objs[1].nqubit, objs[1].wires,
                                                objs[1].controls, objs[1].matrix),
                                     xin.data)
            /\ \A o \in 1..Len(xin.data) :
                  (~ControlsOn(((o - 1) \div d) % d) /\ ~ControlsOn((o - 1) % d))
                      => xout.data[o] = xin.data[o]
            /\ IsHermitian(xin.data, d) => IsHermitian(xout.data, d)

\* a complex gate on wire 0 with control 1 has acted on a 2-qubit density matrix
\* without symmetry and changed it
C25_Witness ==
    /\ op = "op_den_mat"
    /\ objs[1].nqubit = 2 /\ objs[1].wires = <<0>> /\ objs[1].controls = <<1>>
    /\ \E k \in 1..Len(objs[1].matrix.data) : objs[1].matrix.data[k][2] # 0
    /\ ~IsHermitian(xin.data, 4)
    /\ xout # xin

\* C29: every reference emitted for a macro name lists as many qubits as the gate
\* declaration emitted for that name.
C29_ReferenceArity ==
    \A j \in 1..Len(qasm_out.calls) : \A k \in 1..Len(qasm_out.calls) :
        (/\ Len(qasm_out.calls[j].out) = 2
         /\ MacroOf(k) = MacroOf(j)) =>
            Len(qasm_out.calls[k].out[Len(qasm_out.calls[k].out)].args)
                = Len(qasm_out.calls[j].out[1].args)

\* a gate with one control and one wire declared cu_ with two qubits, then a gate
\* with one control and two wires referred to cu_ with three
C29_Witness ==
    /\ Len(qasm_out.calls) = 2
    /\ Len(qasm_out.calls[1].gate.controls) = 1 /\ Len(qasm_out.calls[1].gate.wires) = 1
    /\ Len(qasm_out.calls[2].gate.controls) = 1 /\ Len(qasm_out.calls[2].gate.wires) = 2
    /\ qasm_out.calls[1].out[1] = [stmt |-> "gate", name |-> <<"c", "u", "_">>,
                                   args |-> <<0, 1>>]
    /\ Len(qasm_out.calls[2].out) = 1
    /\ qasm_out.calls[2].out[1].name = <<"c", "u", "_">>
    /\ Len(qasm_out.calls[2].out[1].args) = 3

\* C26: a call of add that raises leaves operators / cmds, encoders, npara, ndata
\* and depth as they were before the call.
C26_RejectedAddFrame ==
    [][(op' = "add" /\ res'.outcome # "ok") =>
          /\ Stored(cir') = Stored(cir)
          /\ cir'.encoders = cir.encoders
          /\ cir'.npara = cir.npara
          /\ cir'.ndata = cir.ndata
          /\ (cir.kind = "QumodeCircuit" => cir'.depth = cir.depth)]_vars

\* add(op, encode=True) with a trainable PhaseShift raised AssertionError on a
\* circuit that holds no counted operator, and the operator is in cir.operators
\* with the depth of its wire raised
C26_Witness ==
    /\ cir.kind = "QumodeCircuit"
    /\ res.call = "add" /\ res.outcome = "AssertionError"
    /\ "args" \in DOMAIN res
    /\ res.args.encode
    /\ cir.npara = 0 /\ cir.ndata = 0 /\ cir.encoders = <<>>
    /\ Len(cir.operators) = 1
    /\ objs[cir.operators[1]].requires_grad
    /\ \E i \in 1..Len(cir.depth) : cir.depth[i] = 1


---------------------------------------------------------------------------
(* Pattern.forward: running the commands of a pattern *)

MaxCmds == 3

MaxForward == 2

\* a dict as the list of its items in insertion order
DictKeys(d) == {d[k][1] : k \in 1..Len(d)}

\* d[key] = value on a dict
DictSet(d, key, value) ==
    IF key \in DictKeys(d)
    THEN List([k \in 1..Len(d) |-> IF d[k][1] = key THEN <<key, value>> ELSE d[k]])
    ELSE Append(d, <<key, value>>)

\* del s[pos] for a position pos of the list s, counted from 0
DelAt(s, pos) == List([k \in 1..(Len(s) - 1) |-> IF k <= pos THEN s[k] ELSE s[k + 1]])

\* the state tensor of a pattern is kept by its shape: the number of axes and the
\* number of qubits it holds. int(log2(len(x))), as Measurement.forward computes
\* the number of qubits: len(x) is 1 for the (1, 2^n) tensor __init__ stores
StateNqubit(x) == IF x.ndim = 2 THEN 0 ELSE x.nqubit

\* Pattern._check_measured(node) lets a command on a measured node pass
_check_measured_passes(measured_dic, node) == FALSE

\* Pattern._check_measured(node): TRUE when it raises ValueError
_check_measured(measured_dic, node) ==
    \E k \in 1..Len(node) : node[k] \in DictKeys(measured_dic)

\* sum(measured_dic.get(wire, 0) for wire in domain) adds a stored sample, a list,
\* to an int as soon as a wire of the domain is a key: TRUE when it raises TypeError
SignalSumRaises(measured_dic, domain) == domain \cap DictKeys(measured_dic) # {}

\* Node.forward(x): kron with the state of the new node
node_forward(x) == [outcome |-> "ok", state |-> [x EXCEPT !.nqubit = x.nqubit + 1]]

\* Entanglement.forward(wires, x): flattens x and permutes the two axes to the front
entanglement_forward(wires, x) ==
    IF wires[1] # wires[2] /\ wires[1] < x.nqubit /\ wires[2] < x.nqubit
    THEN [outcome |-> "ok", state |-> [ndim |-> 1, nqubit |-> x.nqubit]]
    ELSE [outcome |-> "RuntimeError", state |-> x]

\* Measurement.forward(wires, x, measured_dic) with the outcome drawn
measurement_forward(cmd, wires, x, measured_dic, drawn) ==
    IF Len(measured_dic) > 0 /\ (SignalSumRaises(measured_dic, cmd.s_domain)
                                 \/ SignalSumRaises(measured_dic, cmd.t_domain))
    THEN [outcome |-> "TypeError", state |-> x, sample |-> cmd.sample]
    ELSE IF x.ndim = 1 /\ wires < StateNqubit(x)
    THEN [outcome |-> "ok", state |-> [ndim |-> 1, nqubit |-> StateNqubit(x) - 1],
          sample |-> <<drawn>>]
    ELSE [outcome |-> "RuntimeError", state |-> x, sample |-> cmd.sample]

\* Correction.forward(wires, x, measured_dic): the parity is 0 whenever the sum
\* is defined, and x is returned as it came
correction_forward(cmd, wires, x, measured_dic) ==
    IF SignalSumRaises(measured_dic, cmd.signal_domain)
    THEN [outcome |-> "TypeError", state |-> x]
    ELSE [outcome |-> "ok", state |-> x]

\* how one pass of the loop of Pattern.forward ends
Pass(h, c, state, outcome) == [heap |-> h, cir |-> c, state |-> state, outcome |-> outcome]

\* the Measurement branch of the loop below _check_measured
forward_measurement(h, c, o, state, drawn) ==
    IF h[o].node[1] \notin Elems(c.unmeasured_list)
    THEN Pass(h, c, state, "ValueError: not in list")
    ELSE LET node == IndexOf(c.unmeasured_list, h[o].node[1]) - 1
             r == measurement_forward(h[o], node, state, c.measured_dic, drawn)
         IN  IF r.outcome # "ok" THEN Pass(h, c, state, r.outcome)
             ELSE Pass([h EXCEPT ![o].sample = r.sample],
                       [c EXCEPT !.measured_dic = DictSet(c.measured_dic, h[o].node[1],
                                                          r.sample),
                                 !.unmeasured_list = DelAt(c.unmeasured_list, node)],
                       r.state, "ok")

\* the XCorrection / ZCorrection branch
forward_correction(h, c, o, state) ==
    IF h[o].node[1] \notin Elems(c.unmeasured_list)
    THEN Pass(h, c, state, "ValueError: not in list")
    ELSE LET r == correction_forward(h[o], IndexOf(c.unmeasured_list, h[o].node[1]) - 1,
                                     state, c.measured_dic)
         IN  Pass(h, c, r.state, r.outcome)

\* the Entanglement branch
forward_entanglement(h, c, o, state) ==
    IF h[o].node[1] \notin Elems(c.unmeasured_list)
       \/ h[o].node[2] \notin Elems(c.unmeasured_list)
    THEN Pass(h, c, state, "ValueError: not in list")
    ELSE LET r == entanglement_forward(<<IndexOf(c.unmeasured_list, h[o].node[1]) - 1,
                                         IndexOf(c.unmeasured_list, h[o].node[2]) - 1>>,
                                       state)
         IN  Pass(h, c, r.state, r.outcome)

\* one pass of the loop of Pattern.forward on the command o
forward_pass(h, c, o, state, drawn) ==
    IF _check_measured(c.measured_dic, h[o].node)
    THEN Pass(h, c, state, "ValueError: already measured")
    ELSE IF h[o].cls = "Measurement" THEN forward_measurement(h, c, o, state, drawn)
    ELSE IF h[o].cls \in {"XCorrection", "ZCorrection"}
    THEN forward_correction(h, c, o, state)
    ELSE IF h[o].cls = "Entanglement" THEN forward_entanglement(h, c, o, state)
    ELSE LET r == node_forward(state) IN Pass(h, c, r.state, r.outcome)

\* what the run keeps of one pass: the command, the bookkeeping and the state
\* before it, and how it ended
PassLog(h, c, o, state, r) ==
    [cmd |-> h[o], measured_dic |-> c.measured_dic, unmeasured_list |-> c.unmeasured_list,
     state |-> state, outcome |-> r.outcome, measured_after |-> r.cir.measured_dic,
     unmeasured_after |-> r.cir.unmeasured_list, state_after |-> r.state]

\* the loop of Pattern.forward from command k on; drawn lists the measurement
\* outcomes random.choices returns, one per command. A pass that raises ends the
\* call with what the passes before it wrote
RECURSIVE forward_loop(_, _, _, _, _, _)
forward_next(h, c, k, state, drawn, passes, r) ==
    IF r.outcome # "ok"
    THEN [heap |-> r.heap, cir |-> r.cir, outcome |-> r.outcome,
          passes |-> Append(passes, PassLog(h, c, c.cmds[k], state, r))]
    ELSE forward_loop(r.heap, r.cir, k + 1, r.state, drawn,
                      Append(passes, PassLog(h, c, c.cmds[k], state, r)))

forward_loop(h, c, k, state, drawn, passes) ==
    IF k > Len(c.cmds)
    THEN [heap |-> h, cir |-> [c EXCEPT !.bg_state = <<state>>], outcome |-> "ok",
          passes |-> passes]
    ELSE forward_next(h, c, k, state, drawn, passes,
                      forward_pass(h, c, c.cmds[k], state, drawn[k]))

\* Pattern.forward()
pattern_forward(h, c, drawn) == forward_loop(h, c, 1, c.init_state, drawn, <<>>)

\* the outcomes the measurements of one run may draw, 0 for the other commands
Draws(h, c) ==
    {List(d) : d \in [1..Len(c.cmds) -> {0, 1}]
             \ {d \in [1..Len(c.cmds) -> {0, 1}] :
                  \E k \in 1..Len(c.cmds) : h[c.cmds[k]].cls # "Measurement" /\ d[k] = 1}}

\* Pattern.m(node, t_domain=.., s_domain=..)
pattern_m_domains(h, c, node, t_domain, s_domain) ==
    pattern_add(Append(h, [PatternOp("Measurement", <<node>>, FALSE)
                             EXCEPT !.t_domain = t_domain, !.s_domain = s_domain]),
                c, Len(h) + 1, FALSE, <<>>)

\* Pattern.x(node, signal_domain) and Pattern.z(node, signal_domain)
pattern_correction_domain(h, c, cls, node, signal_domain) ==
    IF node \notin Elems(c.node_list)
    THEN [heap |-> h, cir |-> c, outcome |-> "AssertionError"]
    ELSE pattern_add(Append(h, [PatternOp(cls, <<node>>, FALSE)
                                  EXCEPT !.signal_domain = signal_domain]),
                     c, Len(h) + 1, FALSE, <<>>)

\* what the caller of a run names: the edge, the measurements as <<node, t_domain,
\* s_domain>> and the corrections as <<node, signal_domain>>
ForwardEdges == {<<0, 1>>}

ForwardMeasurements == {<<0, {}, {}>>, <<1, {}, {}>>, <<1, {0}, {}>>, <<1, {}, {0}>>}

ForwardCorrections == {<<0, {}>>, <<1, {0}>>}

\* a Pattern just constructed
InitForward ==
    /\ InitCircuit
    /\ cir.kind = "Pattern"

\* what a builder call leaves behind in a pattern that is run
ForwardBuild(call, r) ==
    /\ objs' = r.heap
    /\ cir' = r.cir
    /\ res' = [call |-> call, outcome |-> r.outcome]
    /\ op' = call
    /\ UNCHANGED <<mpsVars, qasmVars, rhs>>
    /\ UNCHANGED <<ctor, gateVars, mpo, cells>>

\* pattern.n(node) with the next free label
ForwardN ==
    /\ Len(cir.cmds) < MaxCmds
    /\ ForwardBuild("n", pattern_n(objs, cir, cir.bg_qubit))

\* pattern.e([a, b])
ForwardE ==
    /\ Len(cir.cmds) < MaxCmds
    /\ \E node \in ForwardEdges : ForwardBuild("e", pattern_e(objs, cir, node))

\* pattern.m(node, t_domain=.., s_domain=..)
ForwardM ==
    /\ Len(cir.cmds) < MaxCmds
    /\ \E m \in ForwardMeasurements :
          ForwardBuild("m", pattern_m_domains(objs, cir, m[1], m[2], m[3]))

\* pattern.x(node, signal_domain)
ForwardX ==
    /\ Len(cir.cmds) < MaxCmds
    /\ \E x \in ForwardCorrections :
          ForwardBuild("x", pattern_correction_domain(objs, cir, "XCorrection", x[1],
                                                      x[2]))

\* pattern.z(node, signal_domain)
ForwardZ ==
    /\ Len(cir.cmds) < MaxCmds
    /\ \E z \in ForwardCorrections :
          ForwardBuild("z", pattern_correction_domain(objs, cir, "ZCorrection", z[1],
                                                      z[2]))

\* pattern.forward(); res keeps the bookkeeping the call started with
Forward ==
    /\ nstep < MaxForward
    /\ \E drawn \in Draws(objs, cir) :
          LET r == pattern_forward(objs, cir, drawn)
          IN  /\ objs' = r.heap
              /\ cir' = r.cir
              /\ res' = [call |-> "forward", outcome |-> r.outcome, passes |-> r.passes,
                         measured_dic |-> cir.measured_dic,
                         unmeasured_list |-> cir.unmeasured_list, nth |-> nstep + 1]
    /\ nstep' = nstep + 1
    /\ op' = "forward"
    /\ UNCHANGED <<mpsVars, qasmVars, rhs>>
    /\ UNCHANGED <<ctor, psi, xin, xout, pms, mpo, cells>>

NextForward == ForwardN \/ ForwardE \/ ForwardM \/ ForwardX \/ ForwardZ \/ Forward

SpecForward == InitForward /\ [][NextForward]_vars

\* the list s without its first entry equal to v
WithoutFirst(s, v) == DelAt(s, IndexOf(s, v) - 1)

\* pass k of the last forward call met a command on a node measured before it
OnMeasured(k) ==
    Elems(res.passes[k].cmd.node) \cap DictKeys(res.passes[k].measured_dic) # {}

\* pass k left the state and the bookkeeping as it found them
PassWroteNothing(k) ==
    /\ res.passes[k].state_after = res.passes[k].state
    /\ res.passes[k].measured_after = res.passes[k].measured_dic
    /\ res.passes[k].unmeasured_after = res.passes[k].unmeasured_list

\* pass k moved the node of its Measurement, and nothing else, from
\* unmeasured_list to measured_dic
MovedOwnNode(k) ==
    LET p == res.passes[k]
    IN  /\ p.cmd.node[1] \in Elems(p.unmeasured_list)
        /\ p.cmd.node[1] \notin DictKeys(p.measured_dic)
        /\ p.unmeasured_after = WithoutFirst(p.unmeasured_list, p.cmd.node[1])
        /\ Len(p.measured_after) = Len(p.measured_dic) + 1
        /\ SubSeq(p.measured_after, 1, Len(p.measured_dic)) = p.measured_dic
        /\ p.measured_after[Len(p.measured_after)][1] = p.cmd.node[1]
        /\ p.measured_after[Len(p.measured_after)][2] \in {<<0>>, <<1>>}

C28_ForwardRepeatable ==
    (op = "forward" /\ \E k \in 1..Len(cir.cmds) : objs[cir.cmds[k]].cls = "Measurement")
       => /\ res.measured_dic = <<>>
          /\ res.unmeasured_list = cir.node_list

\* the second call of forward on a pattern whose first call returned: it starts
\* with a node recorded as measured and raises on the first command on that node
C28_Witness ==
    /\ op = "forward"
    /\ res.nth = 2
    /\ cir.bg_state # <<>>
    /\ res.measured_dic # <<>>
    /\ Len(res.unmeasured_list) < Len(cir.node_list)
    /\ res.outcome = "ValueError: already measured"
    /\ \A k \in 1..Len(cir.cmds) : objs[cir.cmds[k]].cls \in {"Entanglement", "Measurement"}

---------------------------------------------------------------------------
(* Pattern.standardize and Pattern.is_standard *)

MaxStandardize == 2

\* qmath.list_xor(a, b) on domains kept as sets: the nodes in exactly one of them
list_xor(a, b) == (a \ b) \cup (b \ a)

\* dict.get(key) read as a truth value: the key is there with a non-empty list
DictTruthy(d, key) == \E k \in 1..Len(d) : d[k][1] = key /\ d[k][2] # {}

\* d[key] for a key of the dict
DictGet(d, key) == d[CHOOSE k \in 1..Len(d) : d[k][1] = key][2]

\* the dict after d.pop(key, None)
DictPop(d, key) == SelectSeq(d, LAMBDA item : item[1] # key)

\* add_correction_domain(domain_dict, node, domain) inside standardize: with a
\* non-empty entry for the node the result of list_xor is bound to the local name
\* previous_domain and the dict keeps the entry it had
add_correction_domain(domain_dict, node, domain) ==
    IF DictTruthy(domain_dict, node) THEN domain_dict
    ELSE DictSet(domain_dict, node, domain)

\* the lists and dicts standardize fills
NoLists(h) ==
    [heap |-> h, n_list |-> <<>>, e_list |-> <<>>, m_list |-> <<>>, z_dict |-> <<>>,
     x_dict |-> <<>>]

\* the Entanglement branch for one side: an X domain pending on node[side] goes to
\* the Z domain of the other node
standardize_side(z_dict, x_dict, from, to) ==
    IF DictTruthy(x_dict, from) THEN add_correction_domain(z_dict, to, DictGet(x_dict, from))
    ELSE z_dict

\* the Entanglement branch of the loop of standardize
standardize_entanglement(acc, o, node) ==
    [acc EXCEPT !.z_dict = standardize_side(standardize_side(acc.z_dict, acc.x_dict,
                                                             node[1], node[2]),
                                            acc.x_dict, node[2], node[1]),
                !.e_list = Append(acc.e_list, o)]

\* the domain list_xor leaves on the copy of a Measurement from a popped entry
absorbed(domain, d, node) ==
    IF DictTruthy(d, node) THEN list_xor(domain, DictGet(d, node)) ELSE domain

\* the Measurement branch: a deep copy takes the pending domains of its node
standardize_measurement(acc, o, new_op) ==
    [acc EXCEPT !.heap = [new_op.heap EXCEPT
                            ![new_op.ref].t_domain =
                                absorbed(acc.heap[o].t_domain, acc.z_dict, acc.heap[o].node[1]),
                            ![new_op.ref].s_domain =
                                absorbed(acc.heap[o].s_domain, acc.x_dict, acc.heap[o].node[1])],
                !.z_dict = DictPop(acc.z_dict, acc.heap[o].node[1]),
                !.x_dict = DictPop(acc.x_dict, acc.heap[o].node[1]),
                !.m_list = Append(acc.m_list, new_op.ref)]

\* one pass of the loop of standardize on the command o
standardize_pass(acc, o) ==
    IF acc.heap[o].cls = "Node" THEN [acc EXCEPT !.n_list = Append(acc.n_list, o)]
    ELSE IF acc.heap[o].cls = "Entanglement"
    THEN standardize_entanglement(acc, o, acc.heap[o].node)
    ELSE IF acc.heap[o].cls = "Measurement"
    THEN standardize_measurement(acc, o, copy(acc.heap, o))
    ELSE IF acc.heap[o].cls = "ZCorrection"
    THEN [acc EXCEPT !.z_dict = add_correction_domain(acc.z_dict, acc.heap[o].node[1],
                                                      acc.heap[o].signal_domain)]
    ELSE IF acc.heap[o].cls = "XCorrection"
    THEN [acc EXCEPT !.x_dict = add_correction_domain(acc.x_dict, acc.heap[o].node[1],
                                                      acc.heap[o].signal_domain)]
    ELSE acc

\* the loop of standardize over the commands from position k on
RECURSIVE standardize_loop(_, _, _)
standardize_loop(acc, cmds, k) ==
    IF k > Len(cmds) THEN acc
    ELSE standardize_loop(standardize_pass(acc, cmds[k]), cmds, k + 1)

\* the corrections built from the items of a dict, in the order of the dict
NewCorrections(cls, d) ==
    List([k \in 1..Len(d) |-> [PatternOp(cls, <<d[k][1]>>, FALSE)
                                 EXCEPT !.signal_domain = d[k][2]]])

\* the references of count objects appended to a heap of length n
NewRefs(n, count) == List([k \in 1..count |-> n + k])

\* the command sequence with the Entanglement commands ahead of the Node commands
standardize_cmds_e_first(n_list, e_list, m_list, z_list, x_list) ==
    e_list \o n_list \o m_list \o z_list \o x_list

\* nn.Sequential(*n_list, *e_list, *m_list, Z corrections, X corrections)
standardize_cmds(n_list, e_list, m_list, z_list, x_list) ==
    n_list \o e_list \o m_list \o z_list \o x_list

\* the end of standardize: the new corrections are built and cmds is replaced
standardize_return(c, acc) ==
    [heap |-> acc.heap \o NewCorrections("ZCorrection", acc.z_dict)
                       \o NewCorrections("XCorrection", acc.x_dict),
     cir |-> [c EXCEPT !.cmds =
                standardize_cmds(acc.n_list, acc.e_list, acc.m_list,
                                 NewRefs(Len(acc.heap), Len(acc.z_dict)),
                                 NewRefs(Len(acc.heap) + Len(acc.z_dict), Len(acc.x_dict)))]]

\* Pattern.standardize()
standardize(h, c) == standardize_return(c, standardize_loop(NoLists(h), c.cmds, 1))

\* a while loop of is_standard: the position of the first command from k on
\* that is of none of the classes, one past the end when next(it) raises
RECURSIVE skip_while(_, _, _, _)
skip_while(h, cmds, k, classes) ==
    IF k > Len(cmds) THEN k
    ELSE IF h[cmds[k]].cls \in classes THEN skip_while(h, cmds, k + 1, classes)
    ELSE k

\* Pattern.is_standard(): False when a command is left after the four loops
is_standard(h, c) ==
    skip_while(h, c.cmds,
               skip_while(h, c.cmds,
                          skip_while(h, c.cmds, skip_while(h, c.cmds, 1, {"Node"}),
                                     {"Entanglement"}),
                          {"Measurement"}),
               {"XCorrection", "ZCorrection"}) > Len(c.cmds)

\* a command with domains, as its constructor leaves it
Command(cls, node, t_domain, s_domain, signal_domain) ==
    [PatternOp(cls, node, FALSE) EXCEPT !.t_domain = t_domain, !.s_domain = s_domain,
                                        !.signal_domain = signal_domain]

\* the commands a caller places with add
StandardizeCommands ==
    {Command("Node", <<2>>, {}, {}, {}),
     Command("Entanglement", <<0, 1>>, {}, {}, {}),
     Command("Measurement", <<0>>, {}, {}, {}),
     Command("Measurement", <<1>>, {3}, {4}, {}),
     Command("XCorrection", <<0>>, {}, {}, {3}),
     Command("XCorrection", <<1>>, {}, {}, {}),
     Command("ZCorrection", <<0>>, {}, {}, {3}),
     Command("ZCorrection", <<0>>, {}, {}, {4}),
     Command("ZCorrection", <<1>>, {}, {}, {4})}

\* the commands of a pattern, by value
CmdsOf(h, c) == List([k \in 1..Len(c.cmds) |-> h[c.cmds[k]]])

\* a Pattern of two input nodes with up to MaxCmds commands placed by add
InitStandardize ==
    /\ objs \in UNION {[1..n -> StandardizeCommands] : n \in 0..MaxCmds}
    /\ cir = [Pattern(2) EXCEPT !.cmds = NewRefs(0, Len(objs))]
    /\ rhs = NoCircuit
    /\ cells = <<>>
    /\ ctor = [called |-> FALSE]
    /\ op = "init"
    /\ res = NoCall
    /\ mps = NoMps
    /\ mps_out = NoMps
    /\ log = NoLog
    /\ qasm_new_gate = <<>>
    /\ qasm_out = <<>>
    /\ psi = NoTensor
    /\ xin = NoTensor
    /\ xout = NoTensor
    /\ pms = <<>>
    /\ nstep = 0
    /\ mpo = NoMpo

\* pattern.standardize(); res keeps the commands the call started with
Standardize ==
    /\ nstep < MaxStandardize
    /\ LET r == standardize(objs, cir)
       IN  /\ objs' = r.heap
           /\ cir' = r.cir
    /\ res' = [call |-> "standardize", cmds |-> cir.cmds, before |-> CmdsOf(objs, cir)]
    /\ nstep' = nstep + 1
    /\ op' = "standardize"
    /\ UNCHANGED <<mpsVars, qasmVars, rhs>>
    /\ UNCHANGED <<ctor, psi, xin, xout, pms, mpo, cells>>

\* pattern.is_standard()
IsStandard ==
    /\ res' = [call |-> "is_standard", value |-> is_standard(objs, cir)]
    /\ op' = "is_standard"
    /\ UNCHANGED <<mpsVars, qasmVars, rhs>>
    /\ UNCHANGED <<objs, cir, ctor, gateVars, mpo, cells>>

NextStandardize == Standardize \/ IsStandard

SpecStandardize == InitStandardize /\ [][NextStandardize]_vars

\* the classes of a command sequence given by value
Classes(cmds) == List([k \in 1..Len(cmds) |-> cmds[k].cls])

\* N* E* M* C*: the sequence splits into Node, Entanglement, Measurement and
\* correction commands in this order, each part possibly empty
IsNEMC(cl) ==
    \E a \in 0..Len(cl), b \in 0..Len(cl), c \in 0..Len(cl) :
       /\ a <= b /\ b <= c
       /\ \A k \in 1..Len(cl) :
             /\ k <= a => cl[k] = "Node"
             /\ (a < k /\ k <= b) => cl[k] = "Entanglement"
             /\ (b < k /\ k <= c) => cl[k] = "Measurement"
             /\ c < k => cl[k] \in {"XCorrection", "ZCorrection"}

\* the commands of one class, in their order
OfClass(cmds, cls) == SelectSeq(cmds, LAMBDA o : o.cls = cls)

\* the nodes of a command sequence, in its order
NodesOf(cmds) == List([k \in 1..Len(cmds) |-> cmds[k].node])

\* C22: after standardize() the commands are in NEMC form, with the Node and the
\* Entanglement commands those of the sequence before in their order, as many
\* Measurement commands on the same nodes in their order, and is_standard()
\* True; is_standard() returns True exactly for a sequence of the form N* E* M* C*
C22_Standardized ==
    /\ op = "standardize" =>
          /\ IsNEMC(Classes(CmdsOf(objs, cir)))
          /\ is_standard(objs, cir)
          /\ OfClass(CmdsOf(objs, cir), "Node") = OfClass(res.before, "Node")
          /\ OfClass(CmdsOf(objs, cir), "Entanglement") = OfClass(res.before, "Entanglement")
          /\ NodesOf(OfClass(CmdsOf(objs, cir), "Measurement"))
                = NodesOf(OfClass(res.before, "Measurement"))
    /\ op = "is_standard" => res.value = IsNEMC(Classes(CmdsOf(objs, cir)))

\* standardize() ran on a sequence that was not in NEMC form and held a Node, a
\* Measurement and an Entanglement command
C22_Witness ==
    /\ op = "standardize"
    /\ ~IsNEMC(Classes(res.before))
    /\ {"Node", "Entanglement", "Measurement"} \subseteq Elems(Classes(res.before))
    /\ Len(cir.cmds) = 3

\* the nodes the reference below follows
RefNodes == 0..3

\* the symmetric difference of two domains
Xor(a, b) == (a \cup b) \ (a \cap b)

\* what the commands before standardize() prescribe: for every node the Z and X
\* domains still pending, each the symmetric difference of all contributions
\* since the last Measurement of the node, and for every Measurement its node
\* with the t_domain and s_domain it has after absorbing the pending domains
RECURSIVE RefDomains(_, _, _, _, _)
RefDomains(cmds, k, z, x, ms) ==
    IF k > Len(cmds) THEN [z |-> z, x |-> x, ms |-> ms]
    ELSE IF cmds[k].cls = "Entanglement"
    THEN RefDomains(cmds, k + 1,
                    [n \in RefNodes |->
                        IF cmds[k].node[1] = cmds[k].node[2] THEN z[n]
                        ELSE IF n = cmds[k].node[2] THEN Xor(z[n], x[cmds[k].node[1]])
                        ELSE IF n = cmds[k].node[1] THEN Xor(z[n], x[cmds[k].node[2]])
                        ELSE z[n]],
                    x, ms)
    ELSE IF cmds[k].cls = "Measurement"
    THEN RefDomains(cmds, k + 1,
                    [z EXCEPT ![cmds[k].node[1]] = {}],
                    [x EXCEPT ![cmds[k].node[1]] = {}],
                    Append(ms, <<cmds[k].node[1],
                                 Xor(cmds[k].t_domain, z[cmds[k].node[1]]),
                                 Xor(cmds[k].s_domain, x[cmds[k].node[1]])>>))
    ELSE IF cmds[k].cls = "ZCorrection"
    THEN RefDomains(cmds, k + 1,
                    [z EXCEPT ![cmds[k].node[1]] = Xor(@, cmds[k].signal_domain)], x, ms)
    ELSE IF cmds[k].cls = "XCorrection"
    THEN RefDomains(cmds, k + 1, z,
                    [x EXCEPT ![cmds[k].node[1]] = Xor(@, cmds[k].signal_domain)], ms)
    ELSE RefDomains(cmds, k + 1, z, x, ms)

RefOf(cmds) ==
    RefDomains(cmds, 1, [n \in RefNodes |-> {}], [n \in RefNodes |-> {}], <<>>)

\* the corrections of one class with a non-empty domain, as <<node, domain>>
Emitted(cmds, cls) ==
    {<<cmds[k].node[1], cmds[k].signal_domain>> :
        k \in {j \in 1..Len(cmds) : cmds[j].cls = cls /\ cmds[j].signal_domain # {}}}

\* the measurements of a sequence as <<node, t_domain, s_domain>>
Measured(cmds) ==
    List([k \in 1..Len(OfClass(cmds, "Measurement")) |->
             <<OfClass(cmds, "Measurement")[k].node[1],
               OfClass(cmds, "Measurement")[k].t_domain,
               OfClass(cmds, "Measurement")[k].s_domain>>])

\* C24: standardize() accumulates correction domains by XOR: every Measurement has
\* absorbed the symmetric difference of the Z (X) domains that reached its node
\* before it into its t_domain (s_domain), and the corrections emitted at the end
\* carry, per node, the symmetric difference of the domains that reached the node
\* and were not absorbed
C24_DomainsXor ==
    op = "standardize" =>
       /\ Measured(CmdsOf(objs, cir)) = RefOf(res.before).ms
       /\ Emitted(CmdsOf(objs, cir), "ZCorrection")
             = {<<n, RefOf(res.before).z[n]>> : n \in {m \in RefNodes : RefOf(res.before).z[m] # {}}}
       /\ Emitted(CmdsOf(objs, cir), "XCorrection")
             = {<<n, RefOf(res.before).x[n]>> : n \in {m \in RefNodes : RefOf(res.before).x[m] # {}}}

\* standardize() ran on two Z corrections of node 0 with the domains {3} and {4}
\* and emitted one Z correction of node 0 with the domain {3}
C24_Witness ==
    /\ op = "standardize"
    /\ Len(res.before) = 2
    /\ \A k \in 1..2 : res.before[k].cls = "ZCorrection" /\ res.before[k].node = <<0>>
    /\ res.before[1].signal_domain = {3}
    /\ res.before[2].signal_domain = {4}
    /\ Emitted(CmdsOf(objs, cir), "ZCorrection") = {<<0, {3}>>}

---------------------------------------------------------------------------
(* Pattern.__add__: the + of two patterns *)

MaxPlus == 2

\* the loop of __add__ over rhs.cmds from position k on: op.node = [i + bg_qubit
\* for i in op.node] on the command objects of rhs themselves
RECURSIVE shift_nodes(_, _, _, _)
shift_nodes(h, cmds, k, bg_qubit) ==
    IF k > Len(cmds) THEN h
    ELSE shift_nodes([h EXCEPT ![cmds[k]].node =
                                  List([i \in 1..Len(h[cmds[k]].node) |->
                                           h[cmds[k]].node[i] + bg_qubit])],
                     cmds, k + 1, bg_qubit)

\* Pattern.__add__(rhs): [heap, pattern]
pattern__add__(h, self, right) ==
    [heap |-> shift_nodes(h, right.cmds, 1, self.bg_qubit),
     pattern |-> [Pattern(self.n_input_nodes) EXCEPT
                     !.init_state = self.init_state,
                     !.cmds = self.cmds \o right.cmds,
                     !.encoders = self.encoders \o right.encoders,
                     !.npara = self.npara + right.npara,
                     !.ndata = self.ndata + right.ndata]]

\* the commands the two operands hold, placed by add
AddCommands ==
    {Command("Entanglement", <<0, 1>>, {}, {}, {}),
     Command("Measurement", <<0>>, {}, {}, {}),
     Command("XCorrection", <<1>>, {}, {}, {0})}

\* a pattern of n input nodes holding the commands first..last of the heap
PatternWith(n, first, last) ==
    [Pattern(n) EXCEPT !.cmds = List([k \in 1..(last - first + 1) |-> first + k - 1])]

\* two patterns, each with commands of its own placed by add
InitAdd ==
    /\ objs \in UNION {[1..n -> AddCommands] : n \in 0..MaxCmds}
    /\ \E n \in 1..MaxMode, split \in 0..Len(objs) :
          /\ cir = PatternWith(n, 1, split)
          /\ rhs = PatternWith(2, split + 1, Len(objs))
    /\ cells = <<>>
    /\ ctor = [called |-> FALSE]
    /\ op = "init"
    /\ res = NoCall
    /\ mps = NoMps
    /\ mps_out = NoMps
    /\ log = NoLog
    /\ qasm_new_gate = <<>>
    /\ qasm_out = <<>>
    /\ psi = NoTensor
    /\ xin = NoTensor
    /\ xout = NoTensor
    /\ pms = <<>>
    /\ nstep = 0
    /\ mpo = NoMpo

\* what c = left + right leaves: the heap, and in res the new pattern with its
\* commands by value and the result of the call before it
PlusDone(call, r) ==
    /\ objs' = r.heap
    /\ res' = [call |-> call, pattern |-> r.pattern, cmds |-> CmdsOf(r.heap, r.pattern),
               previous |-> IF res.call = call THEN <<res.cmds>> ELSE <<>>]
    /\ nstep' = nstep + 1
    /\ op' = call
    /\ UNCHANGED <<mpsVars, qasmVars, rhs>>
    /\ UNCHANGED <<cir, ctor, psi, xin, xout, pms, mpo, cells>>

\* c = a + b
Plus ==
    /\ nstep < MaxPlus
    /\ PlusDone("a + b", pattern__add__(objs, cir, rhs))

\* c = b + a
PlusSwapped ==
    /\ nstep < MaxPlus
    /\ PlusDone("b + a", pattern__add__(objs, rhs, cir))

NextAdd == Plus \/ PlusSwapped

SpecAdd == InitAdd /\ [][NextAdd]_vars

\* C27: + leaves both operands unchanged, their command sequences, the node labels
\* of each of their commands and their npara/ndata, and evaluating the same sum
\* twice gives two results with identical command sequences and node labels
C27_PlusFrame ==
    [][(op' \in {"a + b", "b + a"})
         => /\ cir' = cir
            /\ rhs' = rhs
            /\ CmdsOf(objs', cir') = CmdsOf(objs, cir)
            /\ CmdsOf(objs', rhs') = CmdsOf(objs, rhs)
            /\ (op = op' => res'.cmds = res.cmds)]_vars

\* a + b was evaluated twice on a right operand holding a Measurement of node 0:
\* the command is on node 4 afterwards, the two results differ in their labels
C27_Witness ==
    /\ op = "a + b"
    /\ res.previous # <<>>
    /\ res.previous[1] # res.cmds
    /\ Len(rhs.cmds) = 1
    /\ Len(cir.cmds) = 0
    /\ cir.bg_qubit = 2
    /\ objs[rhs.cmds[1]].cls = "Measurement"
    /\ objs[rhs.cmds[1]].node = <<4>>
    /\ NodesOf(res.previous[1]) = <<<<2>>>>
    /\ NodesOf(res.cmds) = <<<<4>>>>

====
